---- MODULE Spec2Model ----
(***************************************************************************)
(* Model of the cx-tools command-line client: the refresh-token lifecycle  *)
(* of lib/utils.js (expiry check, renewal, access-token exchange, the      *)
(* authenticated request) and the file sync engine of lib/sync/files.js    *)
(* and lib/sync/index.js (pull preview, push analysis, push execution).    *)
(*                                                                         *)
(* The specifications that share the module:                               *)
(*   SpecExpiry  the pure expiry check applied to bounded tokens/clocks    *)
(*   SpecAuth    makeAuthenticatedRequest, one process, NumReq call slots  *)
(*   SpecSync    pullItems (preview) and pushItems of one sync type        *)
(*   SpecPush    the push command (pushAction) over all sync types         *)
(*   SpecRepush  the push command run again after it ended                 *)
(*   SpecPull    the pull command (pullAction) over all sync types         *)
(*   SpecRepull  the pull command run again after it completed             *)
(*   SpecClear   the clear command (clearAction)                           *)
(***************************************************************************)
EXTENDS Integers, Sequences, FiniteSets, TLC

(***************************************************************************)
(* Bounds of the model (not program constants).                            *)
(***************************************************************************)
\* number of makeAuthenticatedRequest invocations that may be in flight
NumReq == 2
\* number of renewed refresh tokens the server hands out in one behaviour
MaxIssued == 1
\* number of whole days the clock may advance in one behaviour
MaxTicks == 1

\* access tokens the server issues in a run
MaxAccessIssued == 2
\* records of a config section on either side
MaxConfigRecords == 2
\* the wall clock (seconds since the epoch) at the start of a behaviour
Now0 == 2000000
\* SpecSync: number of records in the remote collection of the sync type
MaxRemote == 2
\* SpecPush: number of records in the remote collections of all sync types
MaxPushRemote == 2
\* SpecPush: number of local files over all sync directories
MaxPushFiles == 2
\* SpecRepush: number of times the push command is run in a row
MaxRuns == 2
\* SpecRepush: number of records in the remote collections of all sync types
MaxRepushRemote == 1
\* SpecPull, SpecRepull: number of records in the remote collection of scripts
MaxPullRemote == 2
\* SpecClear: number of entries (files, sub-directories) in the working directory
MaxClearEntries == 3
\* SpecSetup: the remote scripts
MaxSetupRemote == 1

(***************************************************************************)
(* Program constants.                                                      *)
(***************************************************************************)
\* utils.js:53  24 * 60 * 60
DaySecs == 24 * 60 * 60
\* utils.js:56  daysRemaining < 15
RenewalThresholdDays == 15
\* utils.js:73  30 * 24 * 60 * 60
lifetimeInSeconds == 30 * 24 * 60 * 60

VARIABLES
    now,        \* Date.now() / 1000, floored
    envToken,   \* process.env.CX_REFRESH_TOKEN
    envFile,    \* the .env file in the working directory
    issued,     \* number of refresh tokens the server has issued by renewal
    req,        \* per invocation of makeAuthenticatedRequest: its locals
    lastRenewed,\* history: the token returned by the latest successful renewal
    fileBefore, \* history: .env as it was just before the latest successful renewal
    xTok,       \* SpecExpiry: the token handed to checkRefreshTokenExpiration
    xRes,       \* SpecExpiry: what checkRefreshTokenExpiration returned
    appId,      \* process.env.APP_ID ("" when unset)
    remote,     \* per sync type: the records of the remote collection, in list order
    localDir,   \* per sync type: its local directory and the files in it
    kind,       \* SpecSync: the sync type pullItems / pushItems is called with
    pullRes,    \* SpecSync: what pullItems(kind, silent, preview = true) returned
    pushRes,    \* per sync type: what pushItems returned
    silent,     \* options.silent || options.raw of the push command
    push,       \* the push command (pushAction): where it stands, its counters and calls
    disk,       \* the working directory besides the files of the sync directories
    clear,      \* the clear command (clearAction)
    pull,       \* the pull command (pullAction)
    conf,       \* the configure command (configureAction)
    accessIssued, \* number of access tokens the server has issued
    fan,        \* the detail-fetch phase of pullItems / pushItems, fetch by fetch
    cfgDiff     \* calculateConfigDiffs: its arguments and what it returned

authVars == <<envToken, envFile, issued, req, lastRenewed, fileBefore>>
expiryVars == <<xTok, xRes>>
cmdVars == <<disk, clear, pull>>
syncVars == <<appId, remote, localDir, kind, pullRes, pushRes, silent, push, cmdVars>>
toolVars == <<conf, accessIssued, fan, cfgDiff>>
vars == <<now, envToken, envFile, issued, req, lastRenewed, fileBefore, xTok, xRes,
          appId, remote, localDir, kind, pullRes, pushRes, silent, push, disk, clear, pull,
          conf, accessIssued, fan, cfgDiff>>

\* configureAction before it is called
NoConfigure ==
    [pc |-> "start", force |-> FALSE, validation |-> "none", tokenResult |-> "none",
     written |-> FALSE, exitCode |-> 0]

\* calculateConfigDiffs before it is called, with no records on either side
NoConfigDiff == [localData |-> <<>>, remoteData |-> <<>>, called |-> FALSE, diffs |-> <<>>]

\* pullItems / pushItems before the list fetch
NoFan ==
    [pc |-> "idle", cmd |-> "none", listOk |-> FALSE, items |-> <<>>, fetch |-> <<>>,
     arrival |-> <<>>]

\* the configure command has not run, no access token was issued, nothing is fetched
ToolIdle == conf = NoConfigure /\ accessIssued = 0 /\ fan = NoFan /\ cfgDiff = NoConfigDiff

(***************************************************************************)
(* Refresh tokens.  A token is the string in CX_REFRESH_TOKEN; the model   *)
(* keeps what the code looks at: the number of dot-separated segments,     *)
(* whether the middle segment decodes to JSON, and the exp claim.  id      *)
(* tells tokens apart.  NoToken is the unset/empty variable.               *)
(***************************************************************************)
NoToken == [id |-> 0, segs |-> 0, decodable |-> FALSE, hasExp |-> FALSE, exp |-> 0]

Jwt(i, e) == [id |-> i, segs |-> 3, decodable |-> TRUE, hasExp |-> TRUE, exp |-> e]

JwtNoExp(i) == [id |-> i, segs |-> 3, decodable |-> TRUE, hasExp |-> FALSE, exp |-> 0]

\* three segments, but the middle one is not base64 of a JSON document
JwtGarbage(i) == [id |-> i, segs |-> 3, decodable |-> FALSE, hasExp |-> FALSE, exp |-> 0]

\* not three dot-separated segments
NotJwt(i) == [id |-> i, segs |-> 2, decodable |-> FALSE, hasExp |-> FALSE, exp |-> 0]

Max(a, b) == IF a >= b THEN a ELSE b

\* daysRemaining: null of the `!payload.exp` branch
NullDays == -1

\* decodeJWT returns the payload or throws
decodeJWT_throws(t) == t.segs # 3 \/ ~t.decodable

\* `!payload.exp`: exp is missing or falsy (the number 0)
expFalsy(t) == ~t.hasExp \/ t.exp = 0

\* lines 59-62 when the catch reports a token that needs no renewal
checkRefreshTokenExpiration_validOnDecodeError(t, clock) ==
    IF decodeJWT_throws(t) \/ expFalsy(t)
    THEN [needsRenewal |-> FALSE, daysRemaining |-> NullDays]
    ELSE LET secondsRemaining == t.exp - clock
             daysRemaining == secondsRemaining \div DaySecs
         IN  [needsRenewal |-> daysRemaining < RenewalThresholdDays,
              daysRemaining |-> Max(0, daysRemaining)]

checkRefreshTokenExpiration(t, clock) ==
    IF decodeJWT_throws(t)
    THEN [needsRenewal |-> TRUE, daysRemaining |-> 0]
    ELSE IF expFalsy(t)
    THEN [needsRenewal |-> FALSE, daysRemaining |-> NullDays]
    ELSE LET secondsRemaining == t.exp - clock
             daysRemaining == secondsRemaining \div DaySecs
         IN  [needsRenewal |-> daysRemaining < RenewalThresholdDays,
              daysRemaining |-> Max(0, daysRemaining)]

(***************************************************************************)
(* The .env file.  A line is kept as what the code and the loader can      *)
(* tell apart: the text before the key (empty, or a comment marker), the   *)
(* key, whether the value is wrapped in double quotes, and the value (a    *)
(* token for CX_REFRESH_TOKEN, plain text otherwise).                      *)
(***************************************************************************)
NoFile == [exists |-> FALSE, lines |-> <<>>]

EnvFile(ls) == [exists |-> TRUE, lines |-> ls]

Comment(txt) == [pre |-> "# ", key |-> txt, quoted |-> FALSE, tok |-> NoToken, text |-> ""]

\* CX_REFRESH_TOKEN="<token>"
TokenLine(t) == [pre |-> "", key |-> "CX_REFRESH_TOKEN", quoted |-> TRUE, tok |-> t, text |-> ""]

\* CX_REFRESH_TOKEN=<token>   (accepted by the loader, not written by configure)
BareTokenLine(t) == [pre |-> "", key |-> "CX_REFRESH_TOKEN", quoted |-> FALSE, tok |-> t, text |-> ""]

\* #CX_REFRESH_TOKEN="<token>"   (an entry the operator commented out)
CommentedTokenLine(t) == [pre |-> "#", key |-> "CX_REFRESH_TOKEN", quoted |-> TRUE, tok |-> t, text |-> ""]

AppIdLine(a) == [pre |-> "", key |-> "APP_ID", quoted |-> FALSE, tok |-> NoToken, text |-> a]

\* the file configure writes: two comment lines, the token entry, optionally APP_ID
writeEnvFile(t, app) ==
    EnvFile(<<Comment("Company: Acme"), Comment("Refresh Token (Valid for 30 days)"), TokenLine(t)>>
            \o (IF app = "" THEN <<>> ELSE <<AppIdLine(app)>>))

\* an entry the loader reads: the key at the start of a line
IsActiveEntry(l) == l.pre = "" /\ l.key = "CX_REFRESH_TOKEN"

ActiveEntries(f) == {i \in 1..Len(f.lines) : IsActiveEntry(f.lines[i])}

\* configDotenv(): the value of CX_REFRESH_TOKEN in .env (the last entry wins)
configDotenv(f) ==
    IF ~f.exists \/ ActiveEntries(f) = {} THEN NoToken
    ELSE f.lines[CHOOSE i \in ActiveEntries(f) : \A j \in ActiveEntries(f) : j <= i].tok

\* /CX_REFRESH_TOKEN="[^"]*"/ matches inside a line, wherever the key stands in it
regexMatches(l) == l.key = "CX_REFRESH_TOKEN" /\ l.quoted

\* String.prototype.replace with a non-global pattern: the first match only
replaceToken(ls, t) ==
    LET hits == {i \in 1..Len(ls) : regexMatches(ls[i])}
    IN  IF hits = {} THEN ls
        ELSE LET first == CHOOSE i \in hits : \A j \in hits : i <= j
             IN  [ls EXCEPT ![first].tok = t]

(***************************************************************************)
(* Results of makeAuthenticatedRequest.                                    *)
(***************************************************************************)
NoResult == [outcome |-> "none", data |-> <<>>, contentType |-> "", error |-> <<>>]

Success(d, ct) == [outcome |-> "success", data |-> d, contentType |-> ct, error |-> <<>>]

Failure(e) == [outcome |-> "failure", data |-> <<>>, contentType |-> "", error |-> e]

\* an exception leaving makeAuthenticatedRequest
Thrown(e) == [outcome |-> "thrown", data |-> <<>>, contentType |-> "", error |-> e]

\* the outer catch of makeAuthenticatedRequest
Catch_rethrow(msg) == Thrown(msg)

Catch(msg) == Failure(<<"Network error: ">> \o msg)

MsgNoToken == <<"No refresh token found. Please run cx configure first.">>

MsgExpired == <<"Refresh token expired or invalid. Please run cx configure to get a new token.">>

(***************************************************************************)
(* Server answers.                                                         *)
(***************************************************************************)
\* POST auth/jwt/refresh: 200 with a token, 200 without one, 401, 500, no answer
RenewResponses == {"ok_token", "ok_no_token", "http401", "http500", "transport"}

\* GET auth/jwt: 200 with a token, 401, 500, no answer
AccessResponses == {"ok_token", "http401", "http500", "transport"}

\* the refresh token the server issues on the k-th renewal
IssuedToken(k, clock) == Jwt(10 + k, clock + lifetimeInSeconds)

(***************************************************************************)
(* renewRefreshToken(old): what it returns or throws for a server answer,  *)
(* and what it leaves in .env and in process.env.                          *)
(***************************************************************************)
renewRefreshToken(old, resp, newTok, f, env) ==
    IF resp = "ok_token"
    THEN [threw |-> FALSE, error |-> <<>>, token |-> newTok,
          file |-> IF f.exists THEN EnvFile(replaceToken(f.lines, newTok)) ELSE f,
          env |-> IF f.exists THEN newTok ELSE env]
    ELSE [threw |-> TRUE,
          error |-> CASE resp = "ok_no_token" -> <<"Invalid token response - missing token field">>
                      [] resp = "http401" -> MsgExpired
                      [] resp = "http500" -> <<"Failed to renew refresh token: HTTP 500">>
                      [] OTHER -> <<"fetch failed">>,
          token |-> old, file |-> f, env |-> env]

\* the try/catch around renewRefreshToken in makeAuthenticatedRequest:
\* does the request go on after renewRefreshToken threw `error`?
continuesAfterRenewalError_fatal401(error) == error # MsgExpired

continuesAfterRenewalError_none(error) == FALSE

continuesAfterRenewalError(error) == TRUE

(***************************************************************************)
(* getAccessToken(refreshToken)                                            *)
(***************************************************************************)
\* lines 149-161 when the status of the answer is not looked at
getAccessToken_ignoresStatus(resp) == [threw |-> FALSE, error |-> <<>>]

getAccessToken(resp) ==
    CASE resp = "ok_token" -> [threw |-> FALSE, error |-> <<>>]
      [] resp = "http401" -> [threw |-> TRUE, error |-> MsgExpired]
      [] resp = "http500" ->
            [threw |-> TRUE, error |-> <<"Token request failed: ", "Failed to get access token: HTTP 500">>]
      [] OTHER -> [threw |-> TRUE, error |-> <<"Token request failed: ", "fetch failed">>]

(***************************************************************************)
(* The answer to the target HTTP call and its decoding.                    *)
(*   ctype  the declared content-type header as a sequence of pieces: the  *)
(*          media type, then its parameters (<<>> when there is none)      *)
(*   body   "empty" | "json" (parses, no error/message field)              *)
(*          | "json_error" (parses, has an error or message field)         *)
(*          | "text" (does not parse) | "html" (contains <!DOCTYPE html>)  *)
(***************************************************************************)
isValidJSON(body) == body \in {"json", "json_error"}

MsgStatusLine == <<"HTTP status line">>

\* String.prototype.includes for a piece
includes(str, piece) == \E i \in 1..Len(str) : str[i] = piece

\* lines 291-300 when only a declared application/json is parsed
decodeResponse_declaredJsonOnly(resp) ==
    IF resp.ok
    THEN IF includes(resp.ctype, "text/csv")
         THEN Success(<<"raw", resp.body>>, "csv")
         ELSE IF includes(resp.ctype, "application/json")
         THEN IF resp.body # "empty" /\ isValidJSON(resp.body)
              THEN Success(<<"parsed", resp.body>>, "json")
              ELSE IF resp.body # "empty"
              THEN Success(<<"raw", resp.body>>, "text")
              ELSE Success(<<"parsed", "{}">>, "json")
         ELSE Success(<<"raw", resp.body>>, "text")
    ELSE IF includes(resp.ctype, "application/json") /\ isValidJSON(resp.body)
         THEN IF resp.body = "json_error"
              THEN Failure(<<"field of ", resp.body>>)
              ELSE Failure(MsgStatusLine)
         ELSE IF resp.body # "empty" /\ resp.body # "html"
         THEN Failure(<<"raw", resp.body>>)
         ELSE Failure(MsgStatusLine)

\* lines 280-326
decodeResponse(resp) ==
    IF resp.ok
    THEN IF includes(resp.ctype, "text/csv")
         THEN Success(<<"raw", resp.body>>, "csv")
         ELSE IF includes(resp.ctype, "application/json") \/ resp.ctype = <<>>
         THEN IF resp.body # "empty" /\ isValidJSON(resp.body)
              THEN Success(<<"parsed", resp.body>>, "json")
              ELSE IF resp.body # "empty"
              THEN Success(<<"raw", resp.body>>, "text")
              ELSE Success(<<"parsed", "{}">>, "json")
         ELSE Success(<<"raw", resp.body>>, "text")
    ELSE IF includes(resp.ctype, "application/json") /\ isValidJSON(resp.body)
         THEN IF resp.body = "json_error"
              THEN Failure(<<"field of ", resp.body>>)
              ELSE Failure(MsgStatusLine)
         ELSE IF resp.body # "empty" /\ resp.body # "html"
         THEN Failure(<<"raw", resp.body>>)
         ELSE Failure(MsgStatusLine)

\* the answers the target endpoint gives in SpecAuth
TargetResponses ==
    { [ok |-> TRUE, ctype |-> <<"application/json">>, body |-> "json"],
      [ok |-> FALSE, ctype |-> <<"application/json">>, body |-> "json_error"] }

\* no answer of the target endpoint yet
NoResponse == [ok |-> FALSE, ctype |-> <<>>, body |-> "none"]

(***************************************************************************)
(* makeAuthenticatedRequest, one invocation per slot.  pc is the await     *)
(* the invocation is suspended at:                                         *)
(*   idle        not called (or returned and called again by Start)        *)
(*   renewing    await renewRefreshToken(...)   (POST auth/jwt/refresh)    *)
(*   exchanging  await getAccessToken(...)      (GET auth/jwt)             *)
(*   calling     await fetch(url, options)      (the target call)          *)
(*   done        returned (or threw)                                       *)
(* calls is the history of the network calls the invocation has issued.    *)
(***************************************************************************)
Reqs == 1..NumReq

FreshReq ==
    [pc |-> "idle", readToken |-> NoToken, refreshToken |-> NoToken,
     needsRenewal |-> FALSE, daysRemaining |-> NullDays,
     renewal |-> "none", exchange |-> "none", calls |-> <<>>, response |-> NoResponse,
     result |-> NoResult, startedAt |-> 0, accessToken |-> 0]

\* os.hostname() of the machine the tool runs on
hostname == "thishost"

\* configure.js 92-106: the body of the initial exchange under Basic auth
initialRefreshBody ==
    [lifetime |-> 30 * 24 * 60 * 60, audience |-> <<"cx-tools@", hostname>>]

\* utils.js 87: the body of a renewal, JSON.stringify({ lifetime: lifetimeInSeconds })
renewBody == [lifetime |-> lifetimeInSeconds]

RenewCall(t) == [op |-> "renew", bearer |-> <<"refresh", t.id>>, body |-> renewBody]

AccessCall(t) == [op |-> "access", bearer |-> <<"refresh", t.id>>]

\* the server numbers the access tokens it issues; 0 is no token
AccessToken(k) == <<"access", k>>

\* line 269 when the header carries the first access token the process obtained
authorizationOf_first(accessToken) == AccessToken(1)

\* line 269 when the header carries no access token
authorizationOf_none(accessToken) == AccessToken(0)

\* line 269: 'Authorization': `Bearer ${accessToken}`
authorizationOf(accessToken) == AccessToken(accessToken)

\* lines 266-279: the target call under the access token of this invocation
TargetCall(accessToken) == [op |-> "target", bearer |-> authorizationOf(accessToken)]

getRefreshToken_throws_never(env) == FALSE

\* getRefreshToken() throws when the variable is unset or empty
getRefreshToken_throws(env) == env = NoToken

\* lines 242-260 up to the first await
Start(r) ==
    /\ req[r].pc \in {"idle", "done"}
    /\ IF getRefreshToken_throws(envToken)
       THEN req' = [req EXCEPT ![r] = [FreshReq EXCEPT !.pc = "done", !.result = Catch(MsgNoToken)]]
       ELSE LET c == checkRefreshTokenExpiration(envToken, now)
                base == [FreshReq EXCEPT !.readToken = envToken, !.refreshToken = envToken,
                                         !.startedAt = now,
                                         !.needsRenewal = c.needsRenewal,
                                         !.daysRemaining = c.daysRemaining]
            IN  IF c.needsRenewal
                THEN req' = [req EXCEPT ![r] = [base EXCEPT !.pc = "renewing",
                                                            !.calls = <<RenewCall(envToken)>>]]
                ELSE req' = [req EXCEPT ![r] = [base EXCEPT !.pc = "exchanging",
                                                            !.calls = <<AccessCall(envToken)>>]]
    /\ UNCHANGED <<now, toolVars, envToken, envFile, issued, lastRenewed, fileBefore, xTok, xRes, syncVars>>

\* renewRefreshToken resumes with the server's answer; lines 90-127 and 249-260
RenewResponse(r, resp) ==
    /\ req[r].pc = "renewing"
    /\ resp = "ok_token" => issued < MaxIssued
    /\ LET newTok == IssuedToken(issued + 1, now)
           out == renewRefreshToken(req[r].refreshToken, resp, newTok, envFile, envToken)
       IN  /\ envFile' = out.file
           /\ envToken' = out.env
           /\ issued' = IF out.threw THEN issued ELSE issued + 1
           /\ lastRenewed' = IF out.threw THEN lastRenewed ELSE newTok
           /\ fileBefore' = IF out.threw THEN fileBefore ELSE envFile
           /\ IF ~out.threw \/ continuesAfterRenewalError(out.error)
              THEN req' = [req EXCEPT ![r].pc = "exchanging",
                                      ![r].refreshToken = out.token,
                                      ![r].renewal = resp,
                                      ![r].calls = Append(@, AccessCall(out.token))]
              ELSE req' = [req EXCEPT ![r].pc = "done",
                                      ![r].renewal = resp,
                                      ![r].result = Catch(out.error)]
    /\ UNCHANGED <<now, toolVars, xTok, xRes, syncVars>>

\* getAccessToken resumes with the server's answer; lines 149-167 and 260-279
AccessResponse(r, resp) ==
    /\ req[r].pc = "exchanging"
    /\ resp = "ok_token" => accessIssued < MaxAccessIssued
    /\ LET out == getAccessToken(resp)
           accessToken == IF resp = "ok_token" THEN accessIssued + 1 ELSE 0
       IN  /\ accessIssued' = IF resp = "ok_token" THEN accessIssued + 1 ELSE accessIssued
           /\ IF out.threw
              THEN req' = [req EXCEPT ![r].pc = "done",
                                      ![r].exchange = resp,
                                      ![r].result = Catch(out.error)]
              ELSE req' = [req EXCEPT ![r].pc = "calling",
                                      ![r].exchange = resp,
                                      ![r].accessToken = accessToken,
                                      ![r].calls = Append(@, TargetCall(accessToken))]
    /\ UNCHANGED <<now, conf, fan, cfgDiff, envToken, envFile, issued, lastRenewed, fileBefore, xTok, xRes, syncVars>>

\* the target call answers; lines 279-326
TargetResponse(r, resp) ==
    /\ req[r].pc = "calling"
    /\ req' = [req EXCEPT ![r].pc = "done", ![r].response = resp,
                            ![r].result = decodeResponse(resp)]
    /\ UNCHANGED <<now, toolVars, envToken, envFile, issued, lastRenewed, fileBefore, xTok, xRes, syncVars>>

\* the target call fails below HTTP (DNS, refused connection, timeout); lines 327-329
TargetTransportError(r) ==
    /\ req[r].pc = "calling"
    /\ req' = [req EXCEPT ![r].pc = "done", ![r].result = Catch(<<"fetch failed">>)]
    /\ UNCHANGED <<now, toolVars, envToken, envFile, issued, lastRenewed, fileBefore, xTok, xRes, syncVars>>

\* a day passes
Tick ==
    /\ now < Now0 + MaxTicks * DaySecs
    /\ now' = now + DaySecs
    /\ UNCHANGED <<toolVars, envToken, envFile, issued, req, lastRenewed, fileBefore, xTok, xRes, syncVars>>

(***************************************************************************)
(* The resource registry (lib/sync/constants.js) and file names.           *)
(* A name or file name is a sequence of pieces: a base piece followed by   *)
(* extension pieces, so <<"a", ".html">> is the string a.html.             *)
(***************************************************************************)
SYNC_TYPES ==
    [scriptforge |-> [dir |-> "./src", endpoint |-> "scriptforge", extension |-> ".js",
                      contentField |-> "code", filenameFromName |-> FALSE],
     query       |-> [dir |-> "./query", endpoint |-> "setup/query", extension |-> ".sql",
                      contentField |-> "query", filenameFromName |-> FALSE],
     template    |-> [dir |-> "./template", endpoint |-> "setup/template", extension |-> ".html",
                      contentField |-> "html", filenameFromName |-> TRUE]]

\* Object.keys(SYNC_TYPES), in insertion order
SyncTypeOrder == <<"scriptforge", "query", "template">>

SyncKinds == {SyncTypeOrder[i] : i \in DOMAIN SyncTypeOrder}

\* String.prototype.endsWith for an extension piece
endsWith(str, ext) == Len(str) > 0 /\ str[Len(str)] = ext

\* path.basename(file, ext): strips ext unless it is the whole name
basename(file, ext) ==
    IF Len(file) > 1 /\ endsWith(file, ext) THEN SubSeq(file, 1, Len(file) - 1) ELSE file

getLocalFilename(name, config) ==
    IF config.filenameFromName /\ ~endsWith(name, config.extension)
    THEN name \o <<config.extension>>
    ELSE IF config.filenameFromName THEN name
    ELSE name \o <<config.extension>>

\* the elements of an array
Range(seq) == {seq[i] : i \in 1..Len(seq)}

\* app ids come from the API as JSON numbers or as strings
NumApp(digits) == [t |-> "number", v |-> digits]

StrApp(digits) == [t |-> "string", v |-> digits]

\* String(x)
String(x) == x.v

\* item.app_id === appId, without the String() conversions
sameApp_strict(itemApp, scope) == itemApp = StrApp(scope)

\* String(item.app_id) === String(appId)
sameApp(itemApp, scope) == String(itemApp) = scope

\* lines 103-105 when nothing is filtered out
filterByAppId_all(items, scope) == items

filterByAppId(items, scope) ==
    IF scope = "" THEN items
    ELSE SelectSeq(items, LAMBDA item : sameApp(item.app_id, scope))

\* the local directory of a sync type
NoDir == [exists |-> FALSE, files |-> <<>>]

\* the file names a directory listing can show, in readdirSync order
DirOrder(ext) == << <<"a", ext>>, <<"a", ext, ext>>, <<"b", ext>> >>

FileNames(ext) == {DirOrder(ext)[i] : i \in 1..3}

\* readdirSync(config.dir): the names in the directory, in listing order
readdirSync(dir, ext) == SelectSeq(DirOrder(ext), LAMBDA f : f \in DOMAIN dir.files)

existsSync(dir, file) == dir.exists /\ file \in DOMAIN dir.files

(***************************************************************************)
(* pullItems(syncType, silent, preview = true)                             *)
(*   all      the answer of the list endpoint                              *)
(*   listOk   FALSE when fetchAllItems throws                              *)
(*   failed   the ids whose detail fetch (fetchItemById) throws            *)
(***************************************************************************)
NoPull == [state |-> "none", items |-> <<>>, pulled |-> 0, total |-> 0,
           itemsWithDiffs |-> <<>>, failures |-> {}, fetched |-> <<>>, writes |-> <<>>]

\* localContent !== remoteContent with line ends and white space left out
sameContent_trimmed(a, b) ==
    SelectSeq(a, LAMBDA c : c \notin {"\n", " "}) = SelectSeq(b, LAMBDA c : c \notin {"\n", " "})

\* localContent !== remoteContent that holds of every pair
sameContent_never(a, b) == FALSE

\* files.js:162 and 314: !== on the two strings
sameContent(a, b) == a = b

RECURSIVE pullDiffs(_, _, _, _)
\* the loop over the fetch results, lines 148-175
pullDiffs(items, failed, dir, config) ==
    IF items = <<>> THEN <<>>
    ELSE LET item == Head(items)
             filename == getLocalFilename(item.name, config)
             rest == pullDiffs(Tail(items), failed, dir, config)
         IN  IF item.id \in failed THEN rest
             ELSE IF existsSync(dir, filename) /\ ~sameContent(dir.files[filename], item.content)
             THEN <<[filename |-> filename, localContent |-> dir.files[filename],
                     remoteContent |-> item.content, id |-> item.id]>> \o rest
             ELSE rest

\* line 174 when one rejected fetch rejects them all
fetchedItems_allOrNothing(items, failed) ==
    IF \E i \in 1..Len(items) : items[i].id \in failed THEN <<>> ELSE items

\* line 174: the records that carry _fullItem after the loop
fetchedItems(items, failed) == SelectSeq(items, LAMBDA item : item.id \notin failed)

\* line 178 without the test of preview
previewReturns_never(preview) == FALSE

\* line 178: if (preview) return
previewReturns(preview) == preview

\* lines 182-184 when the directory is made anew, without its files
mkdirSync_emptied(dir) == [exists |-> TRUE, files |-> <<>>]

\* lines 183-184: mkdirSync(config.dir, { recursive: true })
mkdirSync(dir) == IF dir.exists THEN dir ELSE [exists |-> TRUE, files |-> <<>>]

\* writeFileSync(filepath, content)
writeFileSync(dir, filename, content) ==
    [dir EXCEPT !.files = [f \in DOMAIN dir.files \cup {filename} |->
                              IF f = filename THEN content ELSE dir.files[f]]]

\* lines 209-211 with the error thrown on
itemsAfterWriteError_abort(items) == <<>>

\* lines 209-211: the error is printed and the loop goes on with the next record
itemsAfterWriteError(items) == Tail(items)

RECURSIVE pullWrites(_, _, _, _, _)
\* lines 192-212: the write loop; returns the directory and the writes done
pullWrites(items, failed, writeFails, dir, config) ==
    IF items = <<>> THEN [dir |-> dir, writes |-> <<>>]
    ELSE LET item == Head(items)
             filename == getLocalFilename(item.name, config)
         IN  IF item.id \in failed
             THEN pullWrites(Tail(items), failed, writeFails, dir, config)
             ELSE IF filename \in writeFails
             THEN pullWrites(itemsAfterWriteError(items), failed, writeFails, dir, config)
             ELSE LET rest == pullWrites(Tail(items), failed, writeFails,
                                         writeFileSync(dir, filename, item.content), config)
                  IN  [dir |-> rest.dir,
                       writes |-> <<[id |-> item.id, filename |-> filename,
                                     content |-> item.content]>> \o rest.writes]

\* returns what pullItems returned (result) and the directory it left (dir)
pullItems(syncType, all, listOk, failed, dir, scope, preview, writeFails) ==
    LET config == SYNC_TYPES[syncType]
        items == filterByAppId(all, scope)
        analysis == [state |-> "returned", items |-> items, pulled |-> 0, total |-> Len(items),
                     itemsWithDiffs |-> pullDiffs(items, failed, dir, config),
                     failures |-> {items[i].id : i \in 1..Len(items)} \cap failed,
                     fetched |-> fetchedItems(items, failed), writes |-> <<>>]
        written == pullWrites(items, failed, writeFails, mkdirSync(dir), config)
    IN  IF ~listOk THEN [result |-> [NoPull EXCEPT !.state = "threw"], dir |-> dir]
        ELSE IF Len(items) = 0 THEN [result |-> [NoPull EXCEPT !.state = "returned"], dir |-> dir]
        ELSE IF previewReturns(preview) THEN [result |-> analysis, dir |-> dir]
        ELSE [result |-> [analysis EXCEPT !.pulled = Len(written.writes),
                                          !.writes = written.writes],
              dir |-> written.dir]

(***************************************************************************)
(* pushItems(syncType, silent)                                             *)
(***************************************************************************)
NoPush == [state |-> "none", toUpdate |-> <<>>, toCreate |-> <<>>, totalChanges |-> 0,
           remoteMap |-> <<>>, fetched |-> FALSE, failures |-> {}]

EmptyPush == [NoPush EXCEPT !.state = "returned"]

\* lines 227-229 with the error of readdirSync on a missing directory
missingDirResult_throws == [NoPush EXCEPT !.state = "threw"]

\* lines 227-229: no directory, the empty result
missingDirResult == EmptyPush

\* Map.prototype.set
MapSet(m, k, v) == [x \in DOMAIN m \cup {k} |-> IF x = k THEN v ELSE m[x]]

\* lines 232-244: the local files with the extension, each with its name variants
localFilesOf(dir, config) ==
    LET names == SelectSeq(readdirSync(dir, config.extension),
                           LAMBDA f : endsWith(f, config.extension))
    IN  [i \in 1..Len(names) |->
            LET nameWithoutExt == basename(names[i], config.extension)
            IN  [filename |-> names[i], name |-> nameWithoutExt,
                 nameVariants |-> IF config.filenameFromName
                                  THEN <<nameWithoutExt, names[i]>> ELSE <<nameWithoutExt>>,
                 content |-> dir.files[names[i]]]]

\* lines 277-288: one fetched record enters the map under its name and, for
\* templates whose name lacks the extension, also under name + extension
remoteEntry(m, fullItem, config) ==
    LET remoteData == [id |-> fullItem.id, content |-> fullItem.content,
                       app_id |-> fullItem.app_id, originalName |-> fullItem.name]
        byName == MapSet(m, fullItem.name, remoteData)
    IN  IF config.filenameFromName /\ ~endsWith(fullItem.name, config.extension)
        THEN MapSet(byName, fullItem.name \o <<config.extension>>, remoteData)
        ELSE byName

RECURSIVE buildRemoteMap(_, _, _, _)
\* lines 274-292: the fetch results in the order the fetches were created
buildRemoteMap(m, items, failed, config) ==
    IF items = <<>> THEN m
    ELSE buildRemoteMap(IF Head(items).id \in failed THEN m
                        ELSE remoteEntry(m, Head(items), config),
                        Tail(items), failed, config)

\* lines 304-310: the first name variant the map knows, 0 when there is none
matchedVariant(localFile, m) ==
    LET hits == {i \in 1..Len(localFile.nameVariants) : localFile.nameVariants[i] \in DOMAIN m}
    IN  IF hits = {} THEN 0 ELSE CHOOSE i \in hits : \A j \in hits : i <= j

RECURSIVE classify(_, _, _)
\* lines 299-330: returns <<toUpdate, toCreate>>
classify(localFiles, m, syncType) ==
    IF localFiles = <<>> THEN << <<>>, <<>> >>
    ELSE LET localFile == Head(localFiles)
             rest == classify(Tail(localFiles), m, syncType)
             v == matchedVariant(localFile, m)
         IN  IF v # 0
             THEN LET remoteRec == m[localFile.nameVariants[v]]
                  IN  IF ~sameContent(remoteRec.content, localFile.content)
                      THEN << <<[filename |-> localFile.filename,
                                 name |-> localFile.nameVariants[v],
                                 content |-> localFile.content,
                                 id |-> remoteRec.id, app_id |-> remoteRec.app_id,
                                 syncType |-> syncType]>> \o rest[1], rest[2] >>
                      ELSE rest
             ELSE << rest[1],
                     <<[filename |-> localFile.filename, name |-> localFile.name,
                        content |-> localFile.content, syncType |-> syncType]>> \o rest[2] >>

pushItems(syncType, all, listOk, failed, dir, scope) ==
    LET config == SYNC_TYPES[syncType]
        localFiles == localFilesOf(dir, config)
        remoteItems == filterByAppId(all, scope)
        remoteMap == buildRemoteMap(<<>>, remoteItems, failed, config)
        lists == classify(localFiles, remoteMap, syncType)
    IN  IF ~dir.exists THEN missingDirResult
        ELSE IF Len(localFiles) = 0 THEN EmptyPush
        ELSE IF ~listOk THEN [NoPush EXCEPT !.state = "threw", !.fetched = TRUE]
        ELSE [state |-> "returned", toUpdate |-> lists[1], toCreate |-> lists[2],
              totalChanges |-> Len(lists[1]) + Len(lists[2]), remoteMap |-> remoteMap,
              fetched |-> TRUE,
              failures |-> {remoteItems[i].id : i \in 1..Len(remoteItems)} \cap failed]

Ids(items) == {items[i].id : i \in 1..Len(items)}

\* what the list fetch and the detail fetches of a sync type can do:
\* the list fetch fails, or it succeeds and any of the detail fetches fail
FetchOutcomes(items) ==
    {[listOk |-> FALSE, failed |-> {}]}
      \cup {[listOk |-> TRUE, failed |-> F] : F \in SUBSET Ids(items)}

(***************************************************************************)
(* pushAction(undefined, options): the push command over all sync types.   *)
(*   pc  start | diffPrompt | confirm | pushing | finishing                *)
(*       | uptodate | cancelled | complete | error    (the last four: over)*)
(***************************************************************************)
NoPushCommand ==
    [pc |-> "start", analysed |-> 0, envChanges |-> 0, configChanges |-> 0, cursor |-> 1,
     outcomes |-> <<>>, successCount |-> 0, failCount |-> 0, sent |-> <<>>,
     answer |-> "none", run |-> 1, prev |-> "none", exitCode |-> 0]

\* the catch of pullAction (index.js 932-934) and of pushAction (1397-1399):
\* handleError prints the message; the exit code of the process stays as it was
exitAfterCatch(code) == code

\* one command per process: nothing has run yet
NoCommandYet ==
    /\ pullRes.state = "none"
    /\ \A k \in SyncKinds : pushRes[k].state = "none"
    /\ push = NoPushCommand

\* pullItems(kind, silent, true) runs to its return (or throw)
PullPreview ==
    /\ NoCommandYet
    /\ \E o \in FetchOutcomes(remote[kind]) :
         LET out == pullItems(kind, remote[kind], o.listOk, o.failed, localDir[kind], appId,
                              TRUE, {})
         IN  /\ pullRes' = out.result
             /\ localDir' = [localDir EXCEPT ![kind] = out.dir]
    /\ UNCHANGED <<now, toolVars, authVars, expiryVars, cmdVars, appId, remote, kind, pushRes, silent, push>>

\* pushItems(kind, silent) runs to its return (or throw)
PushAnalysis ==
    /\ NoCommandYet
    /\ \E o \in FetchOutcomes(remote[kind]) :
         LET r == pushItems(kind, remote[kind], o.listOk, o.failed, localDir[kind], appId)
         IN  /\ r.fetched \/ (o.listOk /\ o.failed = {})
             /\ pushRes' = [pushRes EXCEPT ![kind] = r]
    /\ UNCHANGED <<now, toolVars, authVars, expiryVars, cmdVars, appId, remote, localDir, kind, pullRes, silent, push>>

Tagged(op, entries) == [i \in 1..Len(entries) |-> [op |-> op, entry |-> entries[i]]]

RECURSIVE workFrom(_, _)
\* lines 1312-1371: per sync type, its updates and then its creates
workFrom(results, i) ==
    IF i > Len(SyncTypeOrder) THEN <<>>
    ELSE Tagged("update", results[SyncTypeOrder[i]].toUpdate)
           \o Tagged("create", results[SyncTypeOrder[i]].toCreate)
           \o workFrom(results, i + 1)

Worklist == workFrom(pushRes, 1)

CountOp(op) == Cardinality({i \in 1..Len(Worklist) : Worklist[i].op = op})

\* lines 1317-1328
PutCall(file) ==
    [method |-> "PUT", syncType |-> file.syncType, id |-> file.id,
     body |-> [name |-> file.name, content |-> file.content, app_id |-> file.app_id,
               type |-> ""]]

\* lines 1348-1361
PostCall(file, scope) ==
    [method |-> "POST", syncType |-> file.syncType, id |-> 0,
     body |-> [name |-> file.name, content |-> file.content, app_id |-> StrApp(scope),
               type |-> IF file.syncType = "scriptforge" THEN "quickjs" ELSE ""]]

\* lines 1342-1346 with `return` in the place of `continue`
afterMissingAppId_abort(cursor, n) == n + 1

\* lines 1342-1346: the create is counted as failed and the loop goes on
afterMissingAppId(cursor, n) == cursor + 1

\* lines 1163-1165: pushItems for the next sync type; o is what its fetches
\* do; a throw ends the command
PushAnalyseKind(o) ==
    /\ push.pc = "start"
    /\ pullRes.state = "none"
    /\ push.analysed < Len(SyncTypeOrder)
    /\ LET k == SyncTypeOrder[push.analysed + 1]
       IN  /\ o \in FetchOutcomes(remote[k])
           /\ LET r == pushItems(k, remote[k], o.listOk, o.failed, localDir[k], appId)
             IN  /\ r.fetched \/ (o.listOk /\ o.failed = {})
                 /\ pushRes' = [pushRes EXCEPT ![k] = r]
                 /\ push' = [push EXCEPT
                               !.analysed = @ + 1,
                               !.pc = IF r.state = "threw" THEN "error" ELSE @,
                               !.exitCode = IF r.state = "threw" THEN exitAfterCatch(@) ELSE @]
    /\ UNCHANGED <<now, toolVars, authVars, expiryVars, cmdVars, appId, remote, localDir, kind, pullRes, silent>>

PushAnalyse ==
    \E o \in UNION {FetchOutcomes(remote[k]) : k \in SyncKinds} : PushAnalyseKind(o)

\* lines 1167-1187 and 1236: the env vars and config sections are analysed
\* (env and cfg changes found), then nothing to push, the diff prompt, or
\* the confirmation
PushSummarise(env, cfg) ==
    /\ push.pc = "start"
    /\ push.analysed = Len(SyncTypeOrder)
    /\ LET updates == \E k \in SyncKinds : Len(pushRes[k].toUpdate) > 0
           changes == \E k \in SyncKinds : pushRes[k].totalChanges > 0
       IN  push' = [push EXCEPT
                      !.envChanges = env, !.configChanges = cfg,
                      !.pc = IF ~changes /\ env = 0 /\ cfg = 0 THEN "uptodate"
                             ELSE IF (updates \/ cfg > 0) /\ ~silent THEN "diffPrompt"
                             ELSE "confirm"]
    /\ UNCHANGED <<now, toolVars, authVars, expiryVars, cmdVars, appId, remote, localDir, kind, pullRes, pushRes, silent>>

\* lines 1237-1286: view the diffs, skip them, or cancel
DiffPrompt(choice) ==
    /\ push.pc = "diffPrompt"
    /\ push' = [push EXCEPT !.pc = IF choice = "cancel" THEN "cancelled" ELSE "confirm",
                            !.answer = IF choice = "cancel" THEN "cancel" ELSE @]
    /\ UNCHANGED <<now, toolVars, authVars, expiryVars, cmdVars, appId, remote, localDir, kind, pullRes, pushRes, silent>>

\* lines 1300-1303 without the `return`
afterConfirm_ignored(shouldProceed) == "pushing"

\* lines 1300-1306: declined, the command returns; accepted, it starts pushing
afterConfirm(shouldProceed) == IF shouldProceed THEN "pushing" ELSE "cancelled"

\* lines 1295-1310: the final confirmation
Confirm(shouldProceed) ==
    /\ push.pc = "confirm"
    /\ push' = [push EXCEPT !.pc = afterConfirm(shouldProceed),
                            !.answer = IF shouldProceed THEN "yes" ELSE "no"]
    /\ UNCHANGED <<now, toolVars, authVars, expiryVars, cmdVars, appId, remote, localDir, kind, pullRes, pushRes, silent>>

\* the server: PUT <endpoint>/<id> replaces the fields of the record the body carries
serverPut(items, call) ==
    [i \in 1..Len(items) |->
        IF items[i].id = call.id
        THEN [items[i] EXCEPT !.name = call.body.name, !.content = call.body.content,
                              !.app_id = call.body.app_id]
        ELSE items[i]]

\* the server: POST <endpoint> adds a record with a fresh id at the end of the collection
serverPost(items, call) ==
    Append(items, [id |-> Len(items) + 1, name |-> call.body.name,
                   app_id |-> call.body.app_id, content |-> call.body.content])

\* lines 1316-1337: the next update; ok is the success flag makeAuthenticatedRequest returns
PushUpdate(ok) ==
    /\ push.pc = "pushing"
    /\ push.cursor <= Len(Worklist)
    /\ Worklist[push.cursor].op = "update"
    /\ LET call == PutCall(Worklist[push.cursor].entry)
       IN  /\ push' = [push EXCEPT
                         !.sent = Append(@, call),
                         !.outcomes = Append(@, IF ok THEN "ok" ELSE "failed"),
                         !.successCount = IF ok THEN @ + 1 ELSE @,
                         !.failCount = IF ok THEN @ ELSE @ + 1,
                         !.cursor = @ + 1]
           /\ remote' = IF ok THEN [remote EXCEPT ![call.syncType] = serverPut(@, call)]
                        ELSE remote
    /\ UNCHANGED <<now, toolVars, authVars, expiryVars, cmdVars, appId, localDir, kind, pullRes, pushRes, silent>>

\* lines 1340-1370: the next create
PushCreate(ok) ==
    /\ push.pc = "pushing"
    /\ push.cursor <= Len(Worklist)
    /\ Worklist[push.cursor].op = "create"
    /\ IF appId = ""
       THEN /\ ok
            /\ push' = [push EXCEPT
                          !.outcomes = Append(@, "no_app_id"),
                          !.failCount = @ + 1,
                          !.cursor = afterMissingAppId(@, Len(Worklist))]
            /\ remote' = remote
       ELSE LET call == PostCall(Worklist[push.cursor].entry, appId)
            IN  /\ push' = [push EXCEPT
                              !.sent = Append(@, call),
                              !.outcomes = Append(@, IF ok THEN "ok" ELSE "failed"),
                              !.successCount = IF ok THEN @ + 1 ELSE @,
                              !.failCount = IF ok THEN @ ELSE @ + 1,
                              !.cursor = @ + 1]
                /\ remote' = IF ok THEN [remote EXCEPT ![call.syncType] = serverPost(@, call)]
                             ELSE remote
    /\ UNCHANGED <<now, toolVars, authVars, expiryVars, cmdVars, appId, localDir, kind, pullRes, pushRes, silent>>

\* lines 1373-1396: the env vars and the config sections are pushed, the totals printed
PushFinish(envOk, cfgOk) ==
    /\ push.pc = "pushing"
    /\ push.cursor > Len(Worklist)
    /\ envOk => push.envChanges > 0
    /\ cfgOk => push.configChanges > 0
    /\ push' = [push EXCEPT
                  !.pc = "complete",
                  !.successCount = @ + (IF envOk THEN push.envChanges ELSE 0)
                                     + (IF cfgOk THEN push.configChanges ELSE 0)]
    /\ UNCHANGED <<now, toolVars, authVars, expiryVars, cmdVars, appId, remote, localDir, kind, pullRes, pushRes, silent>>

\* every detail fetch of the analysis of this run answered
FetchesAnswered == \A k \in SyncKinds : pushRes[k].failures = {}

\* the operator runs `cx push` again once the command is over, with no edit
\* of a local file in between
PushAgain ==
    /\ push.pc \in {"complete", "uptodate"}
    /\ push.run < MaxRuns
    /\ push' = [NoPushCommand EXCEPT
                  !.run = push.run + 1,
                  !.prev = IF push.failCount = 0 /\ FetchesAnswered THEN "clean" ELSE "failed"]
    /\ pushRes' = [k \in SyncKinds |-> NoPush]
    /\ UNCHANGED <<now, toolVars, authVars, expiryVars, cmdVars, appId, remote, localDir, kind, pullRes, silent>>

(***************************************************************************)
(* The working directory besides the sync files: the files at its root     *)
(* (cx.env, cx.toml, .env) and the sub-directories of the sync directories.*)
(***************************************************************************)
EmptyDisk == [root |-> {}, subdirs |-> {}]

\* lines 952-957: the config files clear looks for, in the order it does
ConfigFileOrder == << <<"cx", ".env">>, <<"cx", ".toml">> >>

\* the directory entries a listing of a sync directory can show, in listing order
EntryOrder(ext) == << <<"a", ext>>, <<"b", ext>>, <<"d", ext>>, <<"notes", ".txt">> >>

\* readdirSync(config.dir) of getAllSyncFiles: files and sub-directories alike
entriesOf(k, dirs, d) ==
    SelectSeq(EntryOrder(SYNC_TYPES[k].extension),
              LAMBDA f : f \in DOMAIN dirs[k].files \/ <<k, f>> \in d.subdirs)

\* statSync(filepath).isFile()
isFile(k, f, dirs) == f \in DOMAIN dirs[k].files

RECURSIVE syncFilesFrom(_, _, _)
\* files.js 342-353: per sync type whose directory exists, its regular files
\* with the extension of the type
syncFilesFrom(i, dirs, d) ==
    IF i > Len(SyncTypeOrder) THEN <<>>
    ELSE LET k == SyncTypeOrder[i]
             files == IF dirs[k].exists
                      THEN SelectSeq(entriesOf(k, dirs, d),
                                     LAMBDA f : isFile(k, f, dirs)
                                                  /\ endsWith(f, SYNC_TYPES[k].extension))
                      ELSE <<>>
         IN  [j \in 1..Len(files) |-> [dir |-> k, file |-> files[j]]]
               \o syncFilesFrom(i + 1, dirs, d)

getAllSyncFiles(dirs, d) == syncFilesFrom(1, dirs, d)

\* rmSync(filepath) that succeeded
rmSync(dirs, k, f) ==
    [dirs EXCEPT ![k].files = [x \in DOMAIN dirs[k].files \ {f} |-> dirs[k].files[x]]]

(***************************************************************************)
(* clearAction(options)                                                    *)
(*   pc  start | confirm | deleting | nofiles | cancelled | complete       *)
(***************************************************************************)
NoClearCommand ==
    [pc |-> "start", allFiles |-> <<>>, configFiles |-> <<>>, key |-> "", answer |-> "none",
     cursor |-> 1, deletedCount |-> 0, attempted |-> <<>>, removed |-> {},
     dirsBefore |-> <<>>, diskBefore |-> EmptyDisk]

\* index.js:980  default: false
ClearConfirmDefault == FALSE

\* lines 945-975: the files are listed; with none, the command is over
ClearList ==
    /\ clear.pc = "start"
    /\ LET allFiles == getAllSyncFiles(localDir, disk)
           configFiles == SelectSeq(ConfigFileOrder, LAMBDA f : f \in disk.root)
       IN  clear' = [clear EXCEPT
                       !.allFiles = allFiles, !.configFiles = configFiles,
                       !.dirsBefore = localDir, !.diskBefore = disk,
                       !.pc = IF Len(allFiles) = 0 /\ Len(configFiles) = 0
                              THEN "nofiles" ELSE "confirm"]
    /\ UNCHANGED <<now, toolVars, authVars, expiryVars, appId, remote, localDir, kind, pullRes, pushRes,
                   silent, push, disk, pull>>

\* lines 983-986 with the answer ignored
clearProceeds_always(shouldProceed) == TRUE

\* lines 983-986: anything but an affirmative answer ends the command
clearProceeds(shouldProceed) == shouldProceed

\* lines 978-986: the confirmation; key is what the operator pressed
ClearConfirm(key) ==
    /\ clear.pc = "confirm"
    /\ LET shouldProceed == IF key = "enter" THEN ClearConfirmDefault ELSE key = "y"
       IN  clear' = [clear EXCEPT
                       !.key = key,
                       !.answer = IF shouldProceed THEN "yes" ELSE "no",
                       !.pc = IF clearProceeds(shouldProceed) THEN "deleting" ELSE "cancelled"]
    /\ UNCHANGED <<now, toolVars, authVars, expiryVars, appId, remote, localDir, kind, pullRes, pushRes,
                   silent, push, disk, pull>>

\* lines 990-998: the next listed sync file; ok is whether rmSync returned
ClearDeleteSyncFile(ok) ==
    /\ clear.pc = "deleting"
    /\ clear.cursor <= Len(clear.allFiles)
    /\ LET entry == clear.allFiles[clear.cursor]
       IN  /\ clear' = [clear EXCEPT
                          !.cursor = @ + 1,
                          !.attempted = Append(@, entry),
                          !.removed = IF ok THEN @ \cup {entry} ELSE @,
                          !.deletedCount = IF ok THEN @ + 1 ELSE @]
           /\ localDir' = IF ok THEN rmSync(localDir, entry.dir, entry.file) ELSE localDir
    /\ UNCHANGED <<now, toolVars, authVars, expiryVars, appId, remote, kind, pullRes, pushRes,
                   silent, push, disk, pull>>

\* lines 1001-1009: the next listed config file; ok is whether unlinkSync returned
ClearDeleteConfigFile(ok) ==
    /\ clear.pc = "deleting"
    /\ clear.cursor > Len(clear.allFiles)
    /\ clear.cursor <= Len(clear.allFiles) + Len(clear.configFiles)
    /\ LET file == clear.configFiles[clear.cursor - Len(clear.allFiles)]
           entry == [dir |-> "root", file |-> file]
       IN  /\ clear' = [clear EXCEPT
                          !.cursor = @ + 1,
                          !.attempted = Append(@, entry),
                          !.removed = IF ok THEN @ \cup {entry} ELSE @,
                          !.deletedCount = IF ok THEN @ + 1 ELSE @]
           /\ disk' = IF ok THEN [disk EXCEPT !.root = @ \ {file}] ELSE disk
    /\ UNCHANGED <<now, toolVars, authVars, expiryVars, appId, remote, localDir, kind, pullRes, pushRes,
                   silent, push, pull>>

\* line 1011: the total is printed
ClearFinish ==
    /\ clear.pc = "deleting"
    /\ clear.cursor > Len(clear.allFiles) + Len(clear.configFiles)
    /\ clear' = [clear EXCEPT !.pc = "complete"]
    /\ UNCHANGED <<now, toolVars, authVars, expiryVars, appId, remote, localDir, kind, pullRes, pushRes,
                   silent, push, disk, pull>>

(***************************************************************************)
(* pullAction(undefined, options): the pull command over all sync types.   *)
(*   pc  start | cleanPrompt | previewing | diffPrompt | confirm | pulling *)
(*       | nothing | cancelled | complete | error     (the last four: over)*)
(***************************************************************************)
\* pullEnvVars(silent, true) before it is called
NoEnvPreview == [success |-> FALSE, total |-> 0, diffs |-> 0]

\* pullConfigSection(sectionType, silent, true) before it is called
NoConfigPreview == [total |-> 0, diffs |-> 0, localData |-> FALSE]

NoPullCommand ==
    [pc |-> "start", run |-> 1, existing |-> <<>>, cleanChoice |-> "none", analysed |-> 0,
     preview |-> [k \in SyncKinds |-> NoPull], env |-> NoEnvPreview, cfg |-> NoConfigPreview,
     shown |-> {}, answer |-> "none", appliedCount |-> 0,
     applied |-> [k \in SyncKinds |-> NoPull], writeFails |-> [k \in SyncKinds |-> {}],
     prev |-> [k \in SyncKinds |-> <<>>], dirsBefore |-> <<>>, diskBefore |-> EmptyDisk,
     exitCode |-> 0]

\* files.js 373-398: the regular files of the sync directories that carry
\* the extension of their sync type
getExistingSyncFiles(dirs, d) == syncFilesFrom(1, dirs, d)

RECURSIVE cleanSyncDirectories(_, _, _)
\* files.js 406-420: every file is removed by itself; fails are the files
\* whose rmSync throws
cleanSyncDirectories(files, fails, dirs) ==
    IF files = <<>> THEN dirs
    ELSE cleanSyncDirectories(Tail(files), fails,
                              IF Head(files) \in fails THEN dirs
                              ELSE rmSync(dirs, Head(files).dir, Head(files).file))

\* lines 684-686: the existing files are listed; they are shown with the
\* clean prompt unless there are none or the command is silent
PullStart ==
    /\ pull.pc = "start"
    /\ \A k \in SyncKinds : pushRes[k].state = "none"
    /\ LET existingFiles == getExistingSyncFiles(localDir, disk)
       IN  pull' = [pull EXCEPT
                      !.existing = existingFiles,
                      !.dirsBefore = localDir, !.diskBefore = disk,
                      !.pc = IF Len(existingFiles) > 0 /\ ~silent THEN "cleanPrompt"
                             ELSE "previewing",
                      !.shown = IF Len(existingFiles) > 0 /\ ~silent THEN @ \cup {"clean"}
                                ELSE @]
    /\ UNCHANGED <<now, toolVars, authVars, expiryVars, appId, remote, localDir, kind, pullRes, pushRes,
                   silent, push, disk, clear>>

\* lines 710-737: keep the files, delete them first, or cancel
PullCleanChoice(cleanChoice, fails) ==
    /\ pull.pc = "cleanPrompt"
    /\ fails \subseteq Range(pull.existing)
    /\ cleanChoice # "clean" => fails = {}
    /\ pull' = [pull EXCEPT !.cleanChoice = cleanChoice,
                            !.pc = IF cleanChoice = "cancel" THEN "cancelled" ELSE "previewing"]
    /\ localDir' = IF cleanChoice = "clean"
                   THEN cleanSyncDirectories(pull.existing, fails, localDir)
                   ELSE localDir
    /\ UNCHANGED <<now, toolVars, authVars, expiryVars, appId, remote, kind, pullRes, pushRes,
                   silent, push, disk, clear>>

\* lines 741-743: pullItems(syncType, silent, true) for the next sync type;
\* o is what its fetches do; a throw ends the command
PullPreviewKind(o) ==
    /\ pull.pc = "previewing"
    /\ pull.analysed < Len(SyncTypeOrder)
    /\ LET k == SyncTypeOrder[pull.analysed + 1]
           out == pullItems(k, remote[k], o.listOk, o.failed, localDir[k], appId, TRUE, {})
       IN  /\ o \in FetchOutcomes(remote[k])
           /\ pull' = [pull EXCEPT
                         !.analysed = @ + 1,
                         !.preview[k] = out.result,
                         !.pc = IF out.result.state = "threw" THEN "error" ELSE @,
                         !.exitCode = IF out.result.state = "threw" THEN exitAfterCatch(@)
                                      ELSE @]
           /\ localDir' = [localDir EXCEPT ![k] = out.dir]
    /\ UNCHANGED <<now, toolVars, authVars, expiryVars, appId, remote, kind, pullRes, pushRes,
                   silent, push, disk, clear>>

\* lines 102-113 of the earlier pullAction: an env preview without
\* variables counts as nothing as well
nothingToPull_emptyEnv(totalItems, env, cfg) ==
    /\ totalItems = 0
    /\ ~env.success \/ env.total = 0
    /\ cfg.total = 0
    /\ ~cfg.localData

\* line 762
nothingToPull(totalItems, env, cfg) ==
    /\ totalItems = 0
    /\ ~env.success
    /\ cfg.total = 0
    /\ ~cfg.localData

\* line 754
totalItemsOf(results) ==
    results["scriptforge"].total + results["query"].total + results["template"].total

\* line 755
diffCountOf(results) ==
    Len(results["scriptforge"].itemsWithDiffs) + Len(results["query"].itemsWithDiffs)
      + Len(results["template"].itemsWithDiffs)

\* lines 746-863: the env vars and the config sections are previewed (env,
\* cfg), then nothing to pull, the diff prompt, or the confirmation
PullSummarise(env, cfg) ==
    /\ pull.pc = "previewing"
    /\ pull.analysed = Len(SyncTypeOrder)
    /\ LET totalItems == totalItemsOf(pull.preview)
           hasDiffs == diffCountOf(pull.preview) > 0 \/ env.diffs > 0 \/ cfg.diffs > 0
           next == IF nothingToPull(totalItems, env, cfg) THEN "nothing"
                   ELSE IF hasDiffs /\ ~silent THEN "diffPrompt"
                   ELSE "confirm"
       IN  pull' = [pull EXCEPT !.env = env, !.cfg = cfg, !.pc = next,
                                !.shown = @ \cup {next}]
    /\ UNCHANGED <<now, toolVars, authVars, expiryVars, appId, remote, localDir, kind, pullRes, pushRes,
                   silent, push, disk, clear>>

\* lines 831-863: view the diffs, skip them, or cancel
PullDiffPrompt(diffChoice) ==
    /\ pull.pc = "diffPrompt"
    /\ pull' = [pull EXCEPT
                  !.pc = IF diffChoice = "cancel" THEN "cancelled" ELSE "confirm",
                  !.answer = IF diffChoice = "cancel" THEN "cancel" ELSE @,
                  !.shown = IF diffChoice = "cancel" THEN @ ELSE @ \cup {"confirm"}]
    /\ UNCHANGED <<now, toolVars, authVars, expiryVars, appId, remote, localDir, kind, pullRes, pushRes,
                   silent, push, disk, clear>>

\* lines 879-887: the final confirmation
PullConfirm(shouldProceed) ==
    /\ pull.pc = "confirm"
    /\ pull' = [pull EXCEPT !.pc = IF shouldProceed THEN "pulling" ELSE "cancelled",
                            !.answer = IF shouldProceed THEN "yes" ELSE "no"]
    /\ UNCHANGED <<now, toolVars, authVars, expiryVars, appId, remote, localDir, kind, pullRes, pushRes,
                   silent, push, disk, clear>>

\* the file names pullItems would write for the records the scope shows
pullTargets(k) ==
    {getLocalFilename(item.name, SYNC_TYPES[k]) : item \in Range(filterByAppId(remote[k], appId))}

\* lines 893-895: pullItems(syncType, silent, false) for the next sync type;
\* o is what its fetches do, writeFails the files whose writeFileSync throws
PullApplyKind(o, writeFails) ==
    /\ pull.pc = "pulling"
    /\ pull.appliedCount < Len(SyncTypeOrder)
    /\ LET k == SyncTypeOrder[pull.appliedCount + 1]
           out == pullItems(k, remote[k], o.listOk, o.failed, localDir[k], appId,
                            FALSE, writeFails)
       IN  /\ o \in FetchOutcomes(remote[k])
           /\ writeFails \subseteq pullTargets(k)
           /\ o.listOk \/ writeFails = {}
           /\ pull' = [pull EXCEPT !.appliedCount = @ + 1,
                                   !.applied[k] = out.result,
                                   !.writeFails[k] = writeFails,
                                   !.pc = IF out.result.state = "threw" THEN "error" ELSE @,
                                   !.exitCode = IF out.result.state = "threw"
                                                THEN exitAfterCatch(@) ELSE @]
           /\ localDir' = [localDir EXCEPT ![k] = out.dir]
    /\ UNCHANGED <<now, toolVars, authVars, expiryVars, appId, remote, kind, pullRes, pushRes,
                   silent, push, disk, clear>>

\* lines 897-931: cx.env is written when the env preview succeeded, cx.toml
\* when a config section has remote or local items; the totals are printed
PullFinish ==
    /\ pull.pc = "pulling"
    /\ pull.appliedCount = Len(SyncTypeOrder)
    /\ pull' = [pull EXCEPT !.pc = "complete"]
    /\ disk' = [disk EXCEPT
                  !.root = @ \cup (IF pull.env.success THEN {<<"cx", ".env">>} ELSE {})
                             \cup (IF pull.cfg.total > 0 \/ pull.cfg.localData
                                   THEN {<<"cx", ".toml">>} ELSE {})]
    /\ UNCHANGED <<now, toolVars, authVars, expiryVars, appId, remote, localDir, kind, pullRes, pushRes,
                   silent, push, clear>>

\* the operator runs `cx pull` again right after a completed pull
PullAgain ==
    /\ pull.pc = "complete"
    /\ pull.run < MaxRuns
    /\ pull' = [NoPullCommand EXCEPT
                  !.run = pull.run + 1,
                  !.prev = [k \in SyncKinds |-> pull.applied[k].writes]]
    /\ UNCHANGED <<now, toolVars, authVars, expiryVars, appId, remote, localDir, kind, pullRes, pushRes,
                   silent, push, disk, clear>>

CmdIdle ==
    /\ disk = EmptyDisk
    /\ clear = NoClearCommand
    /\ pull = NoPullCommand

SyncIdle ==
    /\ CmdIdle
    /\ appId = ""
    /\ remote = [k \in SyncKinds |-> <<>>]
    /\ localDir = [k \in SyncKinds |-> NoDir]
    /\ kind = "scriptforge"
    /\ pullRes = NoPull
    /\ pushRes = [k \in SyncKinds |-> NoPush]
    /\ silent = FALSE
    /\ push = NoPushCommand

(***************************************************************************)
(* SpecAuth                                                                *)
(***************************************************************************)
\* the token the operator holds: renewal-eligible (10 days left), or exactly at the threshold
InitTokens ==
    { Jwt(1, Now0 + 10 * DaySecs), Jwt(1, Now0 + RenewalThresholdDays * DaySecs) }

\* an older token the operator left commented out in .env
StaleToken == Jwt(2, Now0 + 3 * DaySecs)

InitFiles(cur) ==
    { NoFile,
      writeEnvFile(cur, "app1"),
      EnvFile(<<BareTokenLine(cur), AppIdLine("app1")>>),
      EnvFile(<<CommentedTokenLine(StaleToken), TokenLine(cur), AppIdLine("app1")>>),
      EnvFile(<<Comment("Company: Acme"), AppIdLine("app1")>>) }

NoCheck == [checked |-> FALSE, at |-> 0, needsRenewal |-> FALSE, daysRemaining |-> NullDays]

ExpiryIdle == xTok = NoToken /\ xRes = NoCheck

InitAuth ==
    /\ now = Now0
    /\ ToolIdle
    /\ \E cur \in InitTokens :
         /\ envFile \in InitFiles(cur)
         /\ envToken \in (IF configDotenv(envFile) = NoToken THEN {NoToken, cur}
                          ELSE {configDotenv(envFile)})
    /\ issued = 0
    /\ req = [r \in Reqs |-> FreshReq]
    /\ lastRenewed = NoToken
    /\ fileBefore = NoFile
    /\ ExpiryIdle
    /\ SyncIdle

NextAuth ==
    \/ \E r \in Reqs : Start(r)
    \/ \E r \in Reqs : \E resp \in RenewResponses : RenewResponse(r, resp)
    \/ \E r \in Reqs : \E resp \in AccessResponses : AccessResponse(r, resp)
    \/ \E r \in Reqs : \E resp \in TargetResponses : TargetResponse(r, resp)
    \/ \E r \in Reqs : TargetTransportError(r)

SpecAuth == InitAuth /\ [][NextAuth]_vars

(***************************************************************************)
(* SpecMalformed: makeAuthenticatedRequest with a refresh token that is    *)
(* not a well-formed JWT.                                                  *)
(***************************************************************************)
\* two segments only, or a middle segment that is no base64 of JSON
MalformedTokens == {NotJwt(1), JwtGarbage(1)}

InitMalformed ==
    /\ now = Now0
    /\ ToolIdle
    /\ \E cur \in MalformedTokens :
         /\ envFile \in InitFiles(cur)
         /\ envToken \in (IF configDotenv(envFile) = NoToken THEN {NoToken, cur}
                          ELSE {configDotenv(envFile)})
    /\ issued = 0
    /\ req = [r \in Reqs |-> FreshReq]
    /\ lastRenewed = NoToken
    /\ fileBefore = NoFile
    /\ ExpiryIdle
    /\ SyncIdle

SpecMalformed == InitMalformed /\ [][NextAuth]_vars

(***************************************************************************)
(* SpecDecode: makeAuthenticatedRequest with a token that needs no         *)
(* renewal, against a target endpoint that answers with any status,        *)
(* content type and body.                                                  *)
(***************************************************************************)
ContentTypes ==
    { <<>>, <<"text/csv">>, <<"application/json">>,
      <<"application/json", "; charset=utf-8">>, <<"text/html">> }

Bodies == {"empty", "json", "json_error", "text", "html"}

DecodeResponses == [ok : BOOLEAN, ctype : ContentTypes, body : Bodies]

InitDecode ==
    /\ now = Now0
    /\ ToolIdle
    /\ envToken = Jwt(1, Now0 + 20 * DaySecs)
    /\ envFile = writeEnvFile(envToken, "app1")
    /\ issued = 0
    /\ req = [r \in Reqs |-> FreshReq]
    /\ lastRenewed = NoToken
    /\ fileBefore = NoFile
    /\ ExpiryIdle
    /\ SyncIdle

NextDecode ==
    \/ \E r \in Reqs : Start(r)
    \/ \E r \in Reqs : \E resp \in AccessResponses : AccessResponse(r, resp)
    \/ \E r \in Reqs : \E resp \in DecodeResponses : TargetResponse(r, resp)
    \/ \E r \in Reqs : TargetTransportError(r)

SpecDecode == InitDecode /\ [][NextDecode]_vars

(***************************************************************************)
(* SpecExpired: makeAuthenticatedRequest against a server that looks at    *)
(* the exp claim: a token whose exp has passed is refused for renewal and  *)
(* for the access-token exchange.  The clock moves on by Tick.             *)
(***************************************************************************)
\* the server's view: the exp claim of the token has passed
ExpiredAt(t, clock) == t.segs = 3 /\ t.decodable /\ t.hasExp /\ t.exp <= clock

\* POST auth/jwt/refresh answered by that server
ServerRenewResponse(r, resp) ==
    /\ req[r].pc = "renewing"
    /\ resp = "ok_token" => ~ExpiredAt(req[r].refreshToken, now)
    /\ RenewResponse(r, resp)

\* GET auth/jwt answered by that server
ServerAccessResponse(r, resp) ==
    /\ req[r].pc = "exchanging"
    /\ resp = "ok_token" => ~ExpiredAt(req[r].refreshToken, now)
    /\ AccessResponse(r, resp)

\* the token the operator holds: expired a day ago, or expiring at the next tick
ExpiringTokens == { Jwt(1, Now0 - DaySecs), Jwt(1, Now0 + DaySecs) }

InitExpired ==
    /\ now = Now0
    /\ ToolIdle
    /\ \E cur \in ExpiringTokens :
         /\ envFile \in InitFiles(cur)
         /\ envToken \in (IF configDotenv(envFile) = NoToken THEN {NoToken, cur}
                          ELSE {configDotenv(envFile)})
    /\ issued = 0
    /\ req = [r \in Reqs |-> FreshReq]
    /\ lastRenewed = NoToken
    /\ fileBefore = NoFile
    /\ ExpiryIdle
    /\ SyncIdle

NextExpired ==
    \/ \E r \in Reqs : Start(r)
    \/ \E r \in Reqs : \E resp \in RenewResponses : ServerRenewResponse(r, resp)
    \/ \E r \in Reqs : \E resp \in AccessResponses : ServerAccessResponse(r, resp)
    \/ \E r \in Reqs : \E resp \in TargetResponses : TargetResponse(r, resp)
    \/ \E r \in Reqs : TargetTransportError(r)
    \/ Tick

SpecExpired == InitExpired /\ [][NextExpired]_vars

(***************************************************************************)
(* configureAction(options), lib/configure.js 211-242.                     *)
(*   pc  start | validating | requesting | done                            *)
(***************************************************************************)
\* GET setup/account under Basic auth: what validateCredentials makes of the
\* answer (lines 15-82); only "ok" is { success: true }
ValidationResults == {"ok", "no_company_name", "http401", "transport"}

\* POST auth/jwt/refresh under Basic auth: what requestInitialRefreshToken
\* makes of the answer (lines 89-154); only "ok_token" is { success: true }
TokenResults == {"ok_token", "ok_no_token", "http401", "http500", "transport"}

\* the refresh token of the initial exchange
InitialToken(clock) == Jwt(20, clock + initialRefreshBody.lifetime)

\* line 215 when an existing file is not looked at
skipsExisting_never(exists, force) == FALSE

\* line 215: existsSync(envPath) && !options.force
skipsExisting(exists, force) == exists /\ ~force

\* lines 211-222: the file is there and --force is not given: a message and
\* return; otherwise the credentials are taken from the options or prompts
ConfigureStart(force) ==
    /\ conf.pc = "start"
    /\ conf' = [conf EXCEPT !.force = force,
                            !.pc = IF skipsExisting(envFile.exists, force) THEN "done"
                                   ELSE "validating"]
    /\ fileBefore' = envFile
    /\ UNCHANGED <<now, accessIssued, fan, cfgDiff, envToken, envFile, issued, req, lastRenewed, xTok, xRes,
                   syncVars>>

\* lines 224-231: validateCredentials returned; a failure ends the process
ConfigureValidate(validation) ==
    /\ conf.pc = "validating"
    /\ conf' = [conf EXCEPT !.validation = validation,
                            !.pc = IF validation = "ok" THEN "requesting" ELSE "done",
                            !.exitCode = IF validation = "ok" THEN @ ELSE 1]
    /\ UNCHANGED <<now, accessIssued, fan, cfgDiff, envToken, envFile, issued, req, lastRenewed, fileBefore,
                   xTok, xRes, syncVars>>

\* lines 233-241 and 189-205: requestInitialRefreshToken returned; a failure
\* ends the process, a token is written to .env (writeOk: writeFileSync
\* returned) with the company name and without APP_ID
ConfigureToken(tokenResult, writeOk) ==
    /\ conf.pc = "requesting"
    /\ tokenResult # "ok_token" => writeOk
    /\ LET saved == tokenResult = "ok_token" /\ writeOk
       IN  /\ conf' = [conf EXCEPT !.tokenResult = tokenResult,
                                   !.pc = "done",
                                   !.written = saved,
                                   !.exitCode = IF saved THEN @ ELSE 1]
           /\ envFile' = IF saved THEN writeEnvFile(InitialToken(now), "") ELSE envFile
    /\ UNCHANGED <<now, accessIssued, fan, cfgDiff, envToken, issued, req, lastRenewed, fileBefore, xTok, xRes,
                   syncVars>>

\* the operator runs `cx configure` again
ConfigureAgain ==
    /\ conf.pc = "done"
    /\ now < Now0 + MaxTicks * DaySecs
    /\ now' = now + DaySecs
    /\ conf' = NoConfigure
    /\ UNCHANGED <<accessIssued, fan, cfgDiff, envToken, envFile, issued, req, lastRenewed, fileBefore, xTok,
                   xRes, syncVars>>

InitConfigure ==
    /\ now = Now0
    /\ conf = NoConfigure
    /\ accessIssued = 0
    /\ fan = NoFan
    /\ cfgDiff = NoConfigDiff
    /\ \E cur \in InitTokens :
         /\ envFile \in InitFiles(cur)
         /\ envToken = configDotenv(envFile)
    /\ issued = 0
    /\ req = [r \in Reqs |-> FreshReq]
    /\ lastRenewed = NoToken
    /\ fileBefore = NoFile
    /\ ExpiryIdle
    /\ SyncIdle

NextConfigure ==
    \/ \E force \in BOOLEAN : ConfigureStart(force)
    \/ \E validation \in ValidationResults : ConfigureValidate(validation)
    \/ \E tokenResult \in TokenResults : \E writeOk \in BOOLEAN :
         ConfigureToken(tokenResult, writeOk)
    \/ ConfigureAgain

SpecConfigure == InitConfigure /\ [][NextConfigure]_vars

(***************************************************************************)
(* SpecExpiry: checkRefreshTokenExpiration applied to a token at a clock.  *)
(***************************************************************************)
ExpiryOffsets == {-1, 0, 1}

ExpiryTokens ==
    { Jwt(1, Now0 + d * DaySecs + o) : d \in 13..17, o \in ExpiryOffsets }
      \cup { Jwt(1, 0), Jwt(1, Now0 - 1), Jwt(1, Now0 - 20 * DaySecs),
             JwtNoExp(1), JwtGarbage(1), NotJwt(1) }

AuthIdle ==
    /\ envToken = NoToken
    /\ envFile = NoFile
    /\ issued = 0
    /\ req = [r \in Reqs |-> FreshReq]
    /\ lastRenewed = NoToken
    /\ fileBefore = NoFile

InitExpiry ==
    /\ now = Now0
    /\ ToolIdle
    /\ xTok \in ExpiryTokens
    /\ xRes = NoCheck
    /\ AuthIdle
    /\ SyncIdle

XCheck ==
    /\ LET c == checkRefreshTokenExpiration(xTok, now)
       IN  xRes' = [checked |-> TRUE, at |-> now,
                    needsRenewal |-> c.needsRenewal, daysRemaining |-> c.daysRemaining]
    /\ UNCHANGED <<now, toolVars, envToken, envFile, issued, req, lastRenewed, fileBefore, xTok, syncVars>>

NextExpiry ==
    \/ XCheck
    \/ Tick

SpecExpiry == InitExpiry /\ [][NextExpiry]_vars

(***************************************************************************)
(* SpecSync: pull preview and push analysis of one sync type.              *)
(***************************************************************************)
\* file and record contents: a line, with and without its line end
Contents == {<<"x">>, <<"x", "\n">>}

\* the configured scopes: none, the app of the numeric ids, the app of the string ids
Scopes == {"", "1", "2"}

RemoteData(ext) ==
    [name : {<<"a">>, <<"a", ext>>}, app_id : {NumApp("1"), StrApp("2")}, content : Contents]

\* the collections of at most n records; the record at position i has id i
RemoteLists(ext, n) ==
    UNION { { [i \in 1..m |-> [id |-> i, name |-> f[i].name, app_id |-> f[i].app_id,
                                content |-> f[i].content]] : f \in [1..m -> RemoteData(ext)] }
            : m \in 0..n }

LocalDirs(names) ==
    {NoDir} \cup UNION { { [exists |-> TRUE, files |-> g] : g \in [S -> Contents] }
                         : S \in SUBSET names }

InitSync ==
    /\ now = Now0
    /\ ToolIdle
    /\ AuthIdle
    /\ ExpiryIdle
    /\ appId \in Scopes
    /\ kind \in SyncKinds
    /\ \E list \in RemoteLists(SYNC_TYPES[kind].extension, MaxRemote) :
         remote = [k \in SyncKinds |-> IF k = kind THEN list ELSE <<>>]
    /\ \E d \in LocalDirs({<<"a", SYNC_TYPES[kind].extension>>,
                           <<"a", SYNC_TYPES[kind].extension, SYNC_TYPES[kind].extension>>}) :
         localDir = [k \in SyncKinds |-> IF k = kind THEN d ELSE NoDir]
    /\ pullRes = NoPull
    /\ pushRes = [k \in SyncKinds |-> NoPush]
    /\ silent = FALSE
    /\ push = NoPushCommand
    /\ CmdIdle

NextSync ==
    \/ PullPreview
    \/ PushAnalysis

SpecSync == InitSync /\ [][NextSync]_vars

(***************************************************************************)
(* SpecFan: pullItems(kind, silent, true) and pushItems(kind, silent) with *)
(* the detail fetches one by one.  fan.fetch[i] is the promise of the      *)
(* fetch of fan.items[i]:                                                  *)
(*   unissued   fetchItemById not called yet                               *)
(*   pending    called, not settled                                        *)
(*   fulfilled  settled by .then   ({ success: true })                     *)
(*   rejected   settled by .catch  ({ success: false })                    *)
(*   pc  idle | mapping (in items.map) | awaiting (await Promise.all)      *)
(*       | returned                                                        *)
(***************************************************************************)
Settled(p) == p \in {"fulfilled", "rejected"}

\* Promise.race in the place of Promise.all
promiseAll_race(promises) == \E i \in DOMAIN promises : Settled(promises[i])

\* Promise.all over promises that never reject: resolves when each has settled
promiseAll(promises) == \A i \in DOMAIN promises : Settled(promises[i])

\* the ids whose result is not { success: true }
FailedOf(f) == {f.items[i].id : i \in {j \in DOMAIN f.fetch : f.fetch[j] # "fulfilled"}}

\* pushItems returns before the list fetch: no directory or no file of the type
pushReturnsEarly(k) ==
    \/ ~localDir[k].exists
    \/ Len(localFilesOf(localDir[k], SYNC_TYPES[k])) = 0

\* the settled fetches first, in the order they settled, then the others
resultsOrder_arrival(f) ==
    f.arrival \o SelectSeq([i \in DOMAIN f.fetch |-> i],
                           LAMBDA i : \A h \in DOMAIN f.arrival : f.arrival[h] # i)

\* the array Promise.all resolves to: one result per promise, in the order
\* the promises were created (the positions of items), whatever the order
\* in which they settled
resultsOrder(f) == [i \in DOMAIN f.fetch |-> i]

\* the records in the order the loop over results goes through them; when
\* nothing was fetched, the list as the list fetch gave it
Processed(f) ==
    IF f.fetch = <<>> THEN remote[kind]
    ELSE [i \in DOMAIN f.fetch |-> f.items[resultsOrder(f)[i]]]

\* what the function returns (or throws) once the detail fetches in f are over
FanReturn(f) ==
    /\ fan' = [f EXCEPT !.pc = "returned"]
    /\ IF f.cmd = "pull"
       THEN /\ pullRes' = pullItems(kind, Processed(f), f.listOk, FailedOf(f), localDir[kind],
                                     appId, TRUE, {}).result
            /\ UNCHANGED pushRes
       ELSE /\ pushRes' = [pushRes EXCEPT
                              ![kind] = pushItems(kind, Processed(f), f.listOk, FailedOf(f),
                                                  localDir[kind], appId)]
            /\ UNCHANGED pullRes

\* files.js 118-135 (pull) and 223-262 (push): up to the fan-out
FanStart(cmd, listOk) ==
    /\ fan.pc = "idle"
    /\ LET items == filterByAppId(remote[kind], appId)
           f == [pc |-> "mapping", cmd |-> cmd, listOk |-> listOk, items |-> items,
                 fetch |-> [i \in 1..Len(items) |-> "unissued"], arrival |-> <<>>]
           none == [f EXCEPT !.items = <<>>, !.fetch = <<>>]
       IN  IF (cmd = "push" /\ pushReturnsEarly(kind)) \/ ~listOk \/ Len(items) = 0
           THEN FanReturn(none)
           ELSE fan' = f /\ UNCHANGED <<pullRes, pushRes>>
    /\ UNCHANGED <<now, conf, accessIssued, cfgDiff, authVars, expiryVars, cmdVars, appId, remote, localDir,
                   kind, silent, push>>

\* files.js 137-141 and 265-269: items.map calls fetchItemById for the next
\* item; after the last one the function suspends in await Promise.all
FanIssue ==
    /\ fan.pc = "mapping"
    /\ LET i == CHOOSE j \in DOMAIN fan.fetch :
                  fan.fetch[j] = "unissued" /\ \A h \in 1..(j - 1) : fan.fetch[h] # "unissued"
       IN  fan' = [fan EXCEPT !.fetch[i] = "pending",
                              !.pc = IF i = Len(fan.fetch) THEN "awaiting" ELSE "mapping"]
    /\ UNCHANGED <<now, conf, accessIssued, cfgDiff, authVars, expiryVars, syncVars>>

\* a fetch is over while the function is suspended: its .then or .catch runs
FanSettle(i, ok) ==
    /\ fan.pc \in {"awaiting", "returned"}
    /\ i \in DOMAIN fan.fetch
    /\ fan.fetch[i] = "pending"
    /\ fan' = [fan EXCEPT !.fetch[i] = IF ok THEN "fulfilled" ELSE "rejected",
                           !.arrival = Append(@, i)]
    /\ UNCHANGED <<now, conf, accessIssued, cfgDiff, authVars, expiryVars, syncVars>>

\* files.js 143-176 and 271-330: Promise.all resolved, the results are gone through
FanResume ==
    /\ fan.pc = "awaiting"
    /\ promiseAll(fan.fetch)
    /\ FanReturn(fan)
    /\ UNCHANGED <<now, conf, accessIssued, cfgDiff, authVars, expiryVars, cmdVars, appId, remote, localDir,
                   kind, silent, push>>

NextFan ==
    \/ \E cmd \in {"pull", "push"} : \E listOk \in BOOLEAN : FanStart(cmd, listOk)
    \/ FanIssue
    \/ \E i \in 1..MaxRemote : \E ok \in BOOLEAN : FanSettle(i, ok)
    \/ FanResume

SpecFan == InitSync /\ [][NextFan]_vars

(***************************************************************************)
(* SpecPush: the push command over all sync types.                         *)
(***************************************************************************)
\* a local file: the sync type whose directory holds it, and its base name
PushSlots == SyncKinds \X {"a", "b"}

\* the directory of sync type k when the files chosen are those of slots
PushDir(k, slots) ==
    LET names == {<<sl[2], SYNC_TYPES[k].extension>> : sl \in {x \in slots : x[1] = k}}
    IN  IF names = {} THEN NoDir ELSE [exists |-> TRUE, files |-> [f \in names |-> <<"x">>]]

\* the collections of at most n records named a, of app 1
PushRemoteLists(n) ==
    UNION { { [i \in 1..m |-> [id |-> i, name |-> <<"a">>, app_id |-> NumApp("1"),
                                content |-> c[i]]] : c \in [1..m -> Contents] }
            : m \in 0..n }

InitPush ==
    /\ now = Now0
    /\ ToolIdle
    /\ AuthIdle
    /\ ExpiryIdle
    /\ appId \in {"", "1"}
    /\ kind = "scriptforge"
    /\ remote \in [SyncKinds -> PushRemoteLists(MaxPushRemote)]
    /\ Len(remote["scriptforge"]) + Len(remote["query"]) + Len(remote["template"]) <= MaxPushRemote
    /\ \E slots \in SUBSET PushSlots :
         /\ Cardinality(slots) <= MaxPushFiles
         /\ localDir = [k \in SyncKinds |-> PushDir(k, slots)]
    /\ pullRes = NoPull
    /\ pushRes = [k \in SyncKinds |-> NoPush]
    /\ silent \in BOOLEAN
    /\ push = NoPushCommand
    /\ CmdIdle

NextPush ==
    \/ PushAnalyse
    \/ \E env \in {0, 1} : \E cfg \in {0, 1} : PushSummarise(env, cfg)
    \/ \E choice \in {"view", "skip", "cancel"} : DiffPrompt(choice)
    \/ \E shouldProceed \in BOOLEAN : Confirm(shouldProceed)
    \/ \E ok \in BOOLEAN : PushUpdate(ok)
    \/ \E ok \in BOOLEAN : PushCreate(ok)
    \/ \E envOk \in BOOLEAN : \E cfgOk \in BOOLEAN : PushFinish(envOk, cfgOk)

SpecPush == InitPush /\ [][NextPush]_vars

(***************************************************************************)
(* SpecRepush: the push command run again after it ended.                  *)
(***************************************************************************)
InitRepush ==
    /\ now = Now0
    /\ ToolIdle
    /\ AuthIdle
    /\ ExpiryIdle
    /\ CmdIdle
    /\ appId \in {"", "1"}
    /\ kind = "scriptforge"
    /\ \E sf \in PushRemoteLists(MaxRepushRemote) :
       \E tp \in RemoteLists(".html", MaxRepushRemote) :
         /\ Len(sf) + Len(tp) <= MaxRepushRemote
         /\ remote = [k \in SyncKinds |-> IF k = "scriptforge" THEN sf
                                          ELSE IF k = "template" THEN tp ELSE <<>>]
    /\ \E sf \in {{}, {<<"scriptforge", "a">>}} :
       \E tp \in LocalDirs({<<"a", ".html">>, <<"a", ".html", ".html">>}) :
         localDir = [k \in SyncKinds |-> IF k = "scriptforge" THEN PushDir(k, sf)
                                         ELSE IF k = "template" THEN tp ELSE NoDir]
    /\ pullRes = NoPull
    /\ pushRes = [k \in SyncKinds |-> NoPush]
    /\ silent = TRUE
    /\ push = NoPushCommand

NextRepush ==
    \/ PushAnalyse
    \/ PushSummarise(0, 0)
    \/ \E shouldProceed \in BOOLEAN : Confirm(shouldProceed)
    \/ \E ok \in BOOLEAN : PushUpdate(ok)
    \/ \E ok \in BOOLEAN : PushCreate(ok)
    \/ PushFinish(FALSE, FALSE)
    \/ PushAgain

SpecRepush == InitRepush /\ [][NextRepush]_vars

(***************************************************************************)
(* SpecPull: the pull command, once.                                       *)
(***************************************************************************)
\* what the fetches of one pullItems call can do with at most n records
AnyFetchOutcome(n) ==
    {[listOk |-> FALSE, failed |-> {}]} \cup {[listOk |-> TRUE, failed |-> F] : F \in SUBSET (1..n)}

\* every fetch answers
NoFetchFault == {[listOk |-> TRUE, failed |-> {}]}

\* the names of the scripts, by position in the collection
NameAt == << <<"a">>, <<"b">>, <<"c">>, <<"e">> >>

\* the collections of at most n scripts of app 1 with different names
PullRemoteLists(n) ==
    UNION { { [i \in 1..m |-> [id |-> i, name |-> NameAt[i], app_id |-> NumApp("1"),
                                content |-> c[i]]] : c \in [1..m -> Contents] }
            : m \in 0..n }

\* what pullEnvVars(silent, true) can return: failure, no variables, one
\* variable that differs from the local one
EnvPreviews ==
    { NoEnvPreview, [success |-> TRUE, total |-> 0, diffs |-> 0],
      [success |-> TRUE, total |-> 1, diffs |-> 1] }

\* what the config sections can hold: nothing, or one remote item
ConfigPreviews == { NoConfigPreview, [total |-> 1, diffs |-> 1, localData |-> FALSE] }

InitPull ==
    /\ now = Now0
    /\ ToolIdle
    /\ AuthIdle
    /\ ExpiryIdle
    /\ appId = ""
    /\ kind = "scriptforge"
    /\ \E sf \in PullRemoteLists(MaxPullRemote) :
         remote = [k \in SyncKinds |-> IF k = "scriptforge" THEN sf ELSE <<>>]
    /\ \E sf \in LocalDirs({<<"a", ".js">>}) :
         localDir = [k \in SyncKinds |-> IF k = "scriptforge" THEN sf ELSE NoDir]
    /\ pullRes = NoPull
    /\ pushRes = [k \in SyncKinds |-> NoPush]
    /\ silent \in BOOLEAN
    /\ push = NoPushCommand
    /\ disk = EmptyDisk
    /\ clear = NoClearCommand
    /\ pull = NoPullCommand

NextPull ==
    \/ PullStart
    \/ \E cleanChoice \in {"keep", "clean", "cancel"} :
         \E fails \in SUBSET {[dir |-> "scriptforge", file |-> <<"a", ".js">>]} :
           PullCleanChoice(cleanChoice, fails)
    \/ \E o \in AnyFetchOutcome(MaxPullRemote) : PullPreviewKind(o)
    \/ \E env \in EnvPreviews : \E cfg \in ConfigPreviews : PullSummarise(env, cfg)
    \/ \E diffChoice \in {"view", "skip", "cancel"} : PullDiffPrompt(diffChoice)
    \/ \E shouldProceed \in BOOLEAN : PullConfirm(shouldProceed)
    \/ \E o \in AnyFetchOutcome(MaxPullRemote) :
         \E writeFails \in SUBSET {<<"a", ".js">>, <<"b", ".js">>} : PullApplyKind(o, writeFails)
    \/ PullFinish

SpecPull == InitPull /\ [][NextPull]_vars

(***************************************************************************)
(* SpecRepull: a silent pull run again right after it completed, with      *)
(* every fetch answering.                                                  *)
(***************************************************************************)
InitRepull ==
    /\ now = Now0
    /\ ToolIdle
    /\ AuthIdle
    /\ ExpiryIdle
    /\ appId = ""
    /\ kind = "scriptforge"
    /\ \E sf \in RemoteLists(".js", MaxPullRemote) :
         remote = [k \in SyncKinds |-> IF k = "scriptforge" THEN sf ELSE <<>>]
    /\ \E sf \in LocalDirs({<<"a", ".js">>}) :
         localDir = [k \in SyncKinds |-> IF k = "scriptforge" THEN sf ELSE NoDir]
    /\ pullRes = NoPull
    /\ pushRes = [k \in SyncKinds |-> NoPush]
    /\ silent = TRUE
    /\ push = NoPushCommand
    /\ disk = EmptyDisk
    /\ clear = NoClearCommand
    /\ pull = NoPullCommand

NextRepull ==
    \/ PullStart
    \/ \E o \in NoFetchFault : PullPreviewKind(o)
    \/ PullSummarise(NoEnvPreview, NoConfigPreview)
    \/ \E shouldProceed \in BOOLEAN : PullConfirm(shouldProceed)
    \/ \E o \in NoFetchFault : PullApplyKind(o, {})
    \/ PullFinish
    \/ PullAgain

SpecRepull == InitRepull /\ [][NextRepull]_vars

(***************************************************************************)
(* SpecPullRace: the pull command while another client of the same account *)
(* changes the remote collection; every fetch answers.                     *)
(***************************************************************************)
\* the command is between its start and its end
PullRunning == pull.pc \in {"cleanPrompt", "previewing", "diffPrompt", "confirm", "pulling"}

\* another client saves new content to record i of the collection
RemoteEdit(i, content) ==
    /\ PullRunning
    /\ i \in DOMAIN remote[kind]
    /\ remote[kind][i].content # content
    /\ remote' = [remote EXCEPT ![kind][i].content = content]
    /\ UNCHANGED <<now, toolVars, authVars, expiryVars, cmdVars, appId, localDir, kind, pullRes,
                   pushRes, silent, push>>

\* another client creates a record
RemoteAdd(content) ==
    /\ PullRunning
    /\ Len(remote[kind]) < MaxPullRemote
    /\ LET id == Len(remote[kind]) + 1
       IN  remote' = [remote EXCEPT
                        ![kind] = Append(@, [id |-> id, name |-> NameAt[id],
                                             app_id |-> NumApp("1"), content |-> content])]
    /\ UNCHANGED <<now, toolVars, authVars, expiryVars, cmdVars, appId, localDir, kind, pullRes,
                   pushRes, silent, push>>

NextPullRace ==
    \/ PullStart
    \/ \E cleanChoice \in {"keep", "clean", "cancel"} : PullCleanChoice(cleanChoice, {})
    \/ \E o \in NoFetchFault : PullPreviewKind(o)
    \/ PullSummarise(NoEnvPreview, NoConfigPreview)
    \/ \E diffChoice \in {"view", "skip", "cancel"} : PullDiffPrompt(diffChoice)
    \/ \E shouldProceed \in BOOLEAN : PullConfirm(shouldProceed)
    \/ \E o \in NoFetchFault : PullApplyKind(o, {})
    \/ PullFinish
    \/ \E i \in 1..MaxPullRemote : \E content \in Contents : RemoteEdit(i, content)
    \/ \E content \in Contents : RemoteAdd(content)

SpecPullRace == InitPull /\ [][NextPullRace]_vars

(***************************************************************************)
(* SpecBothWays: a silent pull and a silent push of the scripts in the     *)
(* same working directory; the list fetches answer, detail fetches of the  *)
(* apply and of the push analysis may fail.                                *)
(***************************************************************************)
InitBothWays ==
    /\ now = Now0
    /\ ToolIdle
    /\ AuthIdle
    /\ ExpiryIdle
    /\ appId \in {"", "1"}
    /\ kind = "scriptforge"
    /\ \E sf \in PullRemoteLists(MaxPullRemote) :
         remote = [k \in SyncKinds |-> IF k = "scriptforge" THEN sf ELSE <<>>]
    /\ \E sf \in LocalDirs({<<"a", ".js">>, <<"e", ".js">>}) :
         localDir = [k \in SyncKinds |-> IF k = "scriptforge" THEN sf ELSE NoDir]
    /\ pullRes = NoPull
    /\ pushRes = [k \in SyncKinds |-> NoPush]
    /\ silent = TRUE
    /\ push = NoPushCommand
    /\ disk = EmptyDisk
    /\ clear = NoClearCommand
    /\ pull = NoPullCommand

NextBothWays ==
    \/ PullStart
    \/ \E o \in NoFetchFault : PullPreviewKind(o)
    \/ PullSummarise(NoEnvPreview, NoConfigPreview)
    \/ \E shouldProceed \in BOOLEAN : PullConfirm(shouldProceed)
    \/ \E o \in AnyFetchOutcome(MaxPullRemote) : PullApplyKind(o, {})
    \/ PullFinish
    \/ PushAnalyse
    \/ PushSummarise(0, 0)
    \/ \E shouldProceed \in BOOLEAN : Confirm(shouldProceed)
    \/ \E ok \in BOOLEAN : PushUpdate(ok)
    \/ \E ok \in BOOLEAN : PushCreate(ok)
    \/ PushFinish(FALSE, FALSE)

SpecBothWays == InitBothWays /\ [][NextBothWays]_vars

(***************************************************************************)
(* calculateConfigDiffs(localData, remoteData, sectionConfig) for the      *)
(* domain section, lib/sync/config.js 350-392 and 15-56.  A record is      *)
(*   domain             the domain name (a number stands for the string)   *)
(*   framework_version  "latest" or a version                              *)
(*   note               a key of the TOML table the section does not know  *)
(*                      ("" when absent; remote records come out of toToml *)
(*                      and never carry one)                               *)
(***************************************************************************)
NoRecord == [domain |-> 0, framework_version |-> "", note |-> ""]

\* CONFIG_SECTIONS.domain.getId
getId(data) == data.domain

\* CONFIG_SECTIONS.domain.isEqual, lines 51-54
isEqual(local, remoteRec) ==
    /\ local.domain = remoteRec.domain
    /\ local.framework_version = remoteRec.framework_version

\* lines 354-358: the Map from id to local record; a later record of the
\* same id replaces the earlier one, the key keeps its place
localByIdOf(localData) ==
    [keys |-> SelectSeq([i \in DOMAIN localData |-> i],
                        LAMBDA i : \A h \in 1..(i - 1) : getId(localData[h]) # getId(localData[i])),
     last |-> [i \in DOMAIN localData |->
                 CHOOSE j \in DOMAIN localData :
                    /\ getId(localData[j]) = getId(localData[i])
                    /\ \A h \in DOMAIN localData :
                         getId(localData[h]) = getId(localData[i]) => h <= j]]

\* line 379 left out: the id stays in the Map
afterDelete_kept(deleted, id) == deleted

\* line 379: localById.delete(id)
afterDelete(deleted, id) == deleted \cup {id}

RECURSIVE remoteLoop(_, _, _, _)
\* lines 361-380: the loop over the remote records from position i on;
\* deleted holds the ids already taken out of the Map
remoteLoop(localData, remoteData, i, deleted) ==
    IF i > Len(remoteData) THEN [diffs |-> <<>>, deleted |-> deleted]
    ELSE LET remoteItem == remoteData[i]
             id == getId(remoteItem)
             hits == {j \in DOMAIN localData : getId(localData[j]) = id}
             found == hits # {} /\ id \notin deleted
             localItem == localData[CHOOSE j \in hits : \A h \in hits : h <= j]
             rest == remoteLoop(localData, remoteData, i + 1, afterDelete(deleted, id))
             here == IF ~found
                     THEN <<[type |-> "add", id |-> id, local |-> NoRecord, remote |-> remoteItem]>>
                     ELSE IF ~isEqual(localItem, remoteItem)
                     THEN <<[type |-> "change", id |-> id, local |-> localItem,
                             remote |-> remoteItem]>>
                     ELSE <<>>
         IN  [diffs |-> here \o rest.diffs, deleted |-> rest.deleted]

\* lines 350-392
calculateConfigDiffs(localData, remoteData) ==
    LET m == localByIdOf(localData)
        loop == remoteLoop(localData, remoteData, 1, {})
        left == SelectSeq(m.keys, LAMBDA i : getId(localData[i]) \notin loop.deleted)
    IN  loop.diffs
          \o [n \in DOMAIN left |->
                [type |-> "remove", id |-> getId(localData[left[n]]),
                 local |-> localData[m.last[left[n]]], remote |-> NoRecord]]

Domains == 1..MaxConfigRecords

\* the record lists of at most MaxConfigRecords records in which no domain
\* occurs twice (getId is the unique identifier of a record)
ConfigLists(notes) ==
    UNION { { l \in [1..n -> [domain : Domains, framework_version : {"latest", "v1"},
                               note : notes]] :
                \A i, j \in 1..n : i # j => l[i].domain # l[j].domain }
            : n \in 0..MaxConfigRecords }

\* config.js 170: pullConfigSection calls calculateConfigDiffs
CalculateDiffs ==
    /\ ~cfgDiff.called
    /\ cfgDiff' = [cfgDiff EXCEPT
                     !.called = TRUE,
                     !.diffs = calculateConfigDiffs(cfgDiff.localData, cfgDiff.remoteData)]
    /\ UNCHANGED <<now, conf, accessIssued, fan, authVars, expiryVars, syncVars>>

InitConfigDiff ==
    /\ now = Now0
    /\ conf = NoConfigure
    /\ accessIssued = 0
    /\ fan = NoFan
    /\ \E l \in ConfigLists({"", "x"}) : \E r \in ConfigLists({""}) :
         cfgDiff = [NoConfigDiff EXCEPT !.localData = l, !.remoteData = r]
    /\ AuthIdle
    /\ ExpiryIdle
    /\ SyncIdle

NextConfigDiff == CalculateDiffs

SpecConfigDiff == InitConfigDiff /\ [][NextConfigDiff]_vars

(***************************************************************************)
(* SpecClear: the clear command.                                           *)
(***************************************************************************)
\* the directory of sync type k with the files of names, each holding content x
ClearDir(k, names) ==
    [exists |-> TRUE, files |-> [f \in names |-> <<"x">>]]

\* what a sync directory can hold: files with and without the extension of
\* the type, and a sub-directory whose name carries the extension
ClearFileNames(k) == {<<"a", SYNC_TYPES[k].extension>>, <<"notes", ".txt">>}

ClearSubdirNames(k) == {<<"d", SYNC_TYPES[k].extension>>}

InitClear ==
    /\ now = Now0
    /\ ToolIdle
    /\ AuthIdle
    /\ ExpiryIdle
    /\ appId = ""
    /\ remote = [k \in SyncKinds |-> <<>>]
    /\ kind = "scriptforge"
    /\ pullRes = NoPull
    /\ pushRes = [k \in SyncKinds |-> NoPush]
    /\ silent = FALSE
    /\ push = NoPushCommand
    /\ pull = NoPullCommand
    /\ clear = NoClearCommand
    /\ localDir \in [SyncKinds -> {NoDir} \cup
                        UNION {{ClearDir(k, S) : S \in SUBSET ClearFileNames(k)} : k \in SyncKinds}]
    /\ \A k \in SyncKinds :
         localDir[k].exists => DOMAIN localDir[k].files \subseteq ClearFileNames(k)
    /\ disk \in [root : SUBSET {<<"cx", ".env">>, <<"cx", ".toml">>, <<".env">>},
                 subdirs : SUBSET UNION {{<<k, f>> : f \in ClearSubdirNames(k)} : k \in SyncKinds}]
    /\ \A sd \in disk.subdirs : localDir[sd[1]].exists
    /\ Cardinality(disk.root) + Cardinality(disk.subdirs)
         + Cardinality(DOMAIN localDir["scriptforge"].files)
         + Cardinality(DOMAIN localDir["query"].files)
         + Cardinality(DOMAIN localDir["template"].files) <= MaxClearEntries

NextClear ==
    \/ ClearList
    \/ \E key \in {"y", "n", "enter"} : ClearConfirm(key)
    \/ \E ok \in BOOLEAN : ClearDeleteSyncFile(ok)
    \/ \E ok \in BOOLEAN : ClearDeleteConfigFile(ok)
    \/ ClearFinish

SpecClear == InitClear /\ [][NextClear]_vars

(***************************************************************************)
(* SpecSetup: one pull or one push command in a process whose refresh      *)
(* token is set or is not.  Every fetch of the command goes through        *)
(* makeAuthenticatedRequest, which without a token returns the failure     *)
(* `Network error: No refresh token found...` (utils.js 244, 327-329);     *)
(* fetchAllItems throws it (files.js 60-62).                               *)
(***************************************************************************)
\* the list fetch of a command that has no refresh token throws
tokenAllows(env, o) == getRefreshToken_throws(env) => ~o.listOk

SetupPullStart ==
    /\ push = NoPushCommand
    /\ PullStart

SetupPullPreviewKind(o) ==
    /\ tokenAllows(envToken, o)
    /\ PullPreviewKind(o)

SetupPullApplyKind(o, writeFails) ==
    /\ tokenAllows(envToken, o)
    /\ PullApplyKind(o, writeFails)

\* pushItems asks the server only when the directory holds files of its type
SetupPushAnalyse(o) ==
    /\ pull = NoPullCommand
    /\ PushAnalyseKind(o)
    /\ getRefreshToken_throws(envToken)
         => \A k \in SyncKinds : pushRes'[k].state = "threw" \/ ~pushRes'[k].fetched

\* index.js 1181-1185: the env and config analyses count only when they succeeded
SetupPushSummarise(env, cfg) ==
    /\ getRefreshToken_throws(envToken) => env = 0 /\ cfg = 0
    /\ PushSummarise(env, cfg)

InitSetup ==
    /\ now = Now0
    /\ ToolIdle
    /\ envToken \in {NoToken, Jwt(1, Now0 + 20 * DaySecs)}
    /\ envFile = NoFile
    /\ issued = 0
    /\ req = [r \in Reqs |-> FreshReq]
    /\ lastRenewed = NoToken
    /\ fileBefore = NoFile
    /\ ExpiryIdle
    /\ appId = "1"
    /\ kind = "scriptforge"
    /\ \E sf \in PullRemoteLists(MaxSetupRemote) :
         remote = [k \in SyncKinds |-> IF k = "scriptforge" THEN sf ELSE <<>>]
    /\ \E sf \in LocalDirs({<<"a", ".js">>, <<"b", ".js">>}) :
         localDir = [k \in SyncKinds |-> IF k = "scriptforge" THEN sf ELSE NoDir]
    /\ pullRes = NoPull
    /\ pushRes = [k \in SyncKinds |-> NoPush]
    /\ silent \in BOOLEAN
    /\ push = NoPushCommand
    /\ CmdIdle

NextSetup ==
    \/ SetupPullStart
    \/ \E cleanChoice \in {"keep", "clean", "cancel"} : PullCleanChoice(cleanChoice, {})
    \/ \E o \in AnyFetchOutcome(MaxSetupRemote) : SetupPullPreviewKind(o)
    \/ \E env \in EnvPreviews : PullSummarise(env, NoConfigPreview)
    \/ \E diffChoice \in {"view", "skip", "cancel"} : PullDiffPrompt(diffChoice)
    \/ \E shouldProceed \in BOOLEAN : PullConfirm(shouldProceed)
    \/ \E o \in AnyFetchOutcome(MaxSetupRemote) : SetupPullApplyKind(o, {})
    \/ PullFinish
    \/ \E o \in AnyFetchOutcome(MaxSetupRemote) : SetupPushAnalyse(o)
    \/ \E env \in 0..1 : SetupPushSummarise(env, 0)
    \/ \E choice \in {"view", "skip", "cancel"} : DiffPrompt(choice)
    \/ \E shouldProceed \in BOOLEAN : Confirm(shouldProceed)
    \/ \E ok \in BOOLEAN : PushUpdate(ok)
    \/ \E ok \in BOOLEAN : PushCreate(ok)
    \/ \E envOk \in BOOLEAN : PushFinish(envOk, FALSE)

SpecSetup == InitSetup /\ [][NextSetup]_vars

(***************************************************************************)
(* SpecNames: one sync type is pulled into an empty working directory and  *)
(* pushed back without an edit, every fetch answering.                     *)
(***************************************************************************)
\* pullItems(kind, silent, false)
NamesPull ==
    /\ NoCommandYet
    /\ LET out == pullItems(kind, remote[kind], TRUE, {}, localDir[kind], appId, FALSE, {})
       IN  /\ pullRes' = out.result
           /\ localDir' = [localDir EXCEPT ![kind] = out.dir]
    /\ UNCHANGED <<now, toolVars, authVars, expiryVars, cmdVars, appId, remote, kind, pushRes, silent, push>>

\* pushItems(kind, silent) on what the pull left
NamesPush ==
    /\ pullRes.state = "returned"
    /\ pushRes[kind].state = "none"
    /\ pushRes' = [pushRes EXCEPT
                     ![kind] = pushItems(kind, remote[kind], TRUE, {}, localDir[kind], appId)]
    /\ UNCHANGED <<now, toolVars, authVars, expiryVars, cmdVars, appId, remote, localDir, kind, pullRes,
                   silent, push>>

InitNames ==
    /\ now = Now0
    /\ ToolIdle
    /\ AuthIdle
    /\ ExpiryIdle
    /\ appId = ""
    /\ kind \in SyncKinds
    /\ \E list \in RemoteLists(SYNC_TYPES[kind].extension, MaxRemote) :
         remote = [k \in SyncKinds |-> IF k = kind THEN list ELSE <<>>]
    /\ localDir = [k \in SyncKinds |-> NoDir]
    /\ pullRes = NoPull
    /\ pushRes = [k \in SyncKinds |-> NoPush]
    /\ silent = TRUE
    /\ push = NoPushCommand
    /\ CmdIdle

NextNames ==
    \/ NamesPull
    \/ NamesPush

SpecNames == InitNames /\ [][NextNames]_vars

(***************************************************************************)
(* Properties of the token lifecycle.                                      *)
(***************************************************************************)
\* whole days from the clock to exp, rounded down
WholeDaysRemaining(t, clock) == (t.exp - clock) \div DaySecs

\* a token of three segments whose payload decodes and carries an exp claim
CarriesExp(t) == t.segs = 3 /\ t.decodable /\ t.hasExp

\* C1: for every structurally valid token that carries an exp claim,
\* checkRefreshTokenExpiration returns needsRenewal = TRUE exactly when the
\* whole days remaining until exp are fewer than 15 (FALSE at exactly 15).
C1_NeedsRenewalIffUnder15Days ==
    xRes.checked /\ CarriesExp(xTok)
        => (xRes.needsRenewal <=> WholeDaysRemaining(xTok, xRes.at) < 15)

\* what the code does satisfy: the same, for the tokens whose exp is not 0
ExpiryThresholdForNonZeroExp ==
    xRes.checked /\ CarriesExp(xTok) /\ xTok.exp # 0
        => (xRes.needsRenewal <=> WholeDaysRemaining(xTok, xRes.at) < 15)

\* a renewal failure other than HTTP 401
NonFatalRenewalFailures == {"ok_no_token", "http500", "transport"}

HasCall(r, c) == \E i \in DOMAIN req[r].calls : req[r].calls[i] = c

IssuedOps(r) == {req[r].calls[i].op : i \in DOMAIN req[r].calls}

\* C2: when the token is renewal-eligible and the renewal fails with a
\* non-401 failure, the request still proceeds: the access-token exchange is
\* issued with the original refresh token, the target call is issued once
\* that exchange succeeded, and the failed renewal leaves .env (and the
\* token in process.env) as they were.
C2_NonFatalRenewalFailureProceeds ==
    /\ [](\A r \in Reqs :
            req[r].renewal \in NonFatalRenewalFailures
              => /\ req[r].needsRenewal
                 /\ req[r].refreshToken = req[r].readToken
                 /\ HasCall(r, AccessCall(req[r].readToken))
                 /\ req[r].exchange = "ok_token"
                      => HasCall(r, TargetCall(req[r].accessToken)))
    /\ [][\A r \in Reqs :
            req[r].pc = "renewing" /\ req'[r].renewal \in NonFatalRenewalFailures
              => envFile' = envFile /\ envToken' = envToken]_vars

C2_Witness ==
    \E r \in Reqs :
        /\ req[r].renewal = "http500"
        /\ req[r].pc = "done"
        /\ req[r].result.outcome = "success"
        /\ HasCall(r, TargetCall(req[r].accessToken))

\* C3 as stated: after the renewal call answered 401 the request is over and
\* neither an access-token exchange nor a target call is issued.
C3_Renewal401IsFatal ==
    \A r \in Reqs :
        req[r].renewal = "http401"
          => /\ req[r].pc = "done"
             /\ req[r].result.outcome = "failure"
             /\ IssuedOps(r) = {"renew"}

\* C3 amended: a 401 answer to the renewal is swallowed like every other
\* renewal failure; the request goes on with the old token: the access-token
\* exchange is issued with it, and the target call once the exchange succeeded.
C3_Renewal401Continues ==
    \A r \in Reqs :
        req[r].renewal = "http401"
          => /\ req[r].refreshToken = req[r].readToken
             /\ HasCall(r, AccessCall(req[r].readToken))
             /\ req[r].exchange = "ok_token"
                  => HasCall(r, TargetCall(req[r].accessToken))

C3_Witness ==
    \E r \in Reqs :
        /\ req[r].renewal = "http401"
        /\ req[r].exchange = "ok_token"
        /\ req[r].pc = "done"
        /\ req[r].result.outcome = "success"

\* C4: after a renewal succeeded, the token persisted in .env and the token
\* every later request reads (process.env) both are the newly issued token.
C4_RenewedTokenPersistedAndInUse ==
    lastRenewed # NoToken
        => /\ envToken = lastRenewed
           /\ configDotenv(envFile) = lastRenewed

\* C5: a successful renewal changes only the refresh-token entry of .env;
\* every other line is the same before and after.
C5_OnlyTokenEntryChanges ==
    lastRenewed # NoToken /\ fileBefore.exists
        => /\ envFile.exists
           /\ Len(envFile.lines) = Len(fileBefore.lines)
           /\ \A i \in 1..Len(fileBefore.lines) :
                ~IsActiveEntry(fileBefore.lines[i]) => envFile.lines[i] = fileBefore.lines[i]

\* C6: with no refresh token configured, makeAuthenticatedRequest returns a
\* failure that tells the operator to run configure, and issues no network call.
C6_NoTokenFailsFast ==
    \A r \in Reqs :
        envToken = NoToken /\ req[r].pc # "idle"
          => /\ req[r].pc = "done"
             /\ req[r].result = Failure(<<"Network error: ">> \o MsgNoToken)
             /\ req[r].calls = <<>>

C6_Witness ==
    \E r \in Reqs : envToken = NoToken /\ req[r].pc = "done" /\ req[r].result.outcome = "failure"

\* C7: makeAuthenticatedRequest never throws: every invocation that is over
\* returned {success: true, data, contentType} or {success: false, error}.
C7_NeverThrows ==
    \A r \in Reqs :
        /\ req[r].result.outcome # "thrown"
        /\ req[r].pc = "done"
             => \/ /\ req[r].result.outcome = "success"
                   /\ req[r].result.contentType \in {"json", "csv", "text"}
                   /\ req[r].result.data # <<>>
                \/ /\ req[r].result.outcome = "failure"
                   /\ req[r].result.error # <<>>

\* an exception from getAccessToken and one from the transport of the target call
C7_Witness ==
    /\ \E r \in Reqs : req[r].pc = "done" /\ req[r].exchange = "http401"
    /\ \E r \in Reqs : req[r].pc = "done" /\ req[r].result = Catch(<<"fetch failed">>)
                        /\ req[r].exchange = "ok_token"

(***************************************************************************)
(* Properties of pull preview and push analysis.                           *)
(***************************************************************************)
\* the remote records of the sync type that the configured scope shows
VisibleRemote ==
    {item \in Range(remote[kind]) : appId = "" \/ String(item.app_id) = appId}

\* the visible records whose detail fetch succeeded in the push analysis
FetchedForPush == {item \in VisibleRemote : item.id \notin pushRes[kind].failures}

\* the local files of the sync type: the directory entries with its extension
LocalFilesOfKind ==
    IF localDir[kind].exists
    THEN {f \in DOMAIN localDir[kind].files : endsWith(f, SYNC_TYPES[kind].extension)}
    ELSE {}

\* a remote record matches a local file by name: its name is the file name
\* without the extension or, for templates (whose names may carry the
\* extension), the file name itself
MatchesByName(item, file) ==
    \/ item.name = basename(file, SYNC_TYPES[kind].extension)
    \/ SYNC_TYPES[kind].filenameFromName /\ item.name = file

Matching(file) == {item \in FetchedForPush : MatchesByName(item, file)}

UpdatesOf(file) ==
    {i \in 1..Len(pushRes[kind].toUpdate) : pushRes[kind].toUpdate[i].filename = file}

CreatesOf(file) ==
    {i \in 1..Len(pushRes[kind].toCreate) : pushRes[kind].toCreate[i].filename = file}

ClassifiedAsPushDoes(file) ==
    LET content == localDir[kind].files[file]
    IN  /\ Cardinality(UpdatesOf(file)) + Cardinality(CreatesOf(file)) <= 1
        /\ CreatesOf(file) # {} <=> Matching(file) = {}
        /\ \A i \in UpdatesOf(file) :
             /\ pushRes[kind].toUpdate[i].content = content
             /\ \E item \in Matching(file) :
                  /\ item.content # content
                  /\ pushRes[kind].toUpdate[i].id = item.id
                  /\ pushRes[kind].toUpdate[i].app_id = item.app_id
        /\ Matching(file) # {} /\ (\A item \in Matching(file) : item.content # content)
             => UpdatesOf(file) # {}
        /\ Matching(file) # {} /\ (\A item \in Matching(file) : item.content = content)
             => UpdatesOf(file) = {} /\ CreatesOf(file) = {}

PushAnalysed == pushRes[kind].state = "returned" /\ pushRes[kind].fetched

\* C8: pushItems puts every local file of the kind in exactly one class:
\* toCreate iff no fetched remote record matches it by name; toUpdate (with
\* that record's id and app_id and the local content) if a matching record's
\* content differs; in neither list if the contents are identical.  A file
\* without a remote counterpart is never in toUpdate.
C8_PushClassification ==
    PushAnalysed => \A file \in LocalFilesOfKind : ClassifiedAsPushDoes(file)

\* what the code does satisfy: the same, for the files with a single extension
PushClassificationSingleExtension ==
    PushAnalysed
      => \A file \in LocalFilesOfKind : Len(file) = 2 => ClassifiedAsPushDoes(file)

\* C9: every remote record visible in the current scope is among the
\* candidates (items) pull preview returns, with or without a local file;
\* with no scope configured the records of all app ids are.
C9_PullPreviewKeepsVisible ==
    pullRes.state = "returned"
      => /\ \A item \in VisibleRemote : item \in Range(pullRes.items)
         /\ appId = "" => pullRes.items = remote[kind]

\* no scope, two records of different apps, one of them without a local file
\* and one whose detail fetch failed: both are candidates
C9_Witness ==
    /\ pullRes.state = "returned"
    /\ appId = ""
    /\ Len(pullRes.items) = 2
    /\ pullRes.items[1].app_id # pullRes.items[2].app_id
    /\ pullRes.failures # {}
    /\ \E i \in 1..2 :
         ~existsSync(localDir[kind], getLocalFilename(pullRes.items[i].name, SYNC_TYPES[kind]))

\* a scope is configured and a record with a numeric app id of that scope,
\* without a local file, is a candidate
C9_WitnessScoped ==
    /\ pullRes.state = "returned"
    /\ appId = "1"
    /\ \E item \in Range(pullRes.items) : item.app_id = NumApp("1")
    /\ ~localDir[kind].exists

\* the visible records of the sync type, in list order
VisibleList == filterByAppId(remote[kind], appId)

\* N >= 2 detail fetches were issued and exactly one of them failed
OneOfManyFailed(failures) == Len(VisibleList) >= 2 /\ Cardinality(failures) = 1

C15_WitnessPush ==
    /\ Len(VisibleList) = 2
    /\ PushAnalysed
    /\ pushRes[kind].failures = {VisibleList[1].id}
    /\ VisibleList[2].name \in DOMAIN pushRes[kind].remoteMap

\* C16: pullItems in preview mode leaves the local file system as it was:
\* no directory is created and no file is created, overwritten or deleted.
C16_PreviewLeavesFilesAlone ==
    [][pullRes.state = "none" /\ pullRes'.state # "none"
         => localDir' = localDir /\ disk' = disk]_vars

\* a preview of records that an apply would write: the directory is missing
C16_Witness ==
    /\ pullRes.state = "returned"
    /\ Len(pullRes.fetched) > 0
    /\ ~localDir[kind].exists

\* a preview of a record whose local file differs
C16_WitnessDiff ==
    /\ pullRes.state = "returned"
    /\ Len(pullRes.itemsWithDiffs) > 0

\* C17: contents are compared by exact string equality.  Pull records a
\* fetched record as a diff candidate iff its local file exists and the file
\* content is not exactly the remote content; push puts a file with a single
\* remote counterpart in toUpdate iff the contents are not exactly equal.
\* Contents that differ only in a line end are different.
C17_ExactContentComparison ==
    /\ pullRes.state = "returned"
         => \A item \in Range(pullRes.fetched) :
              LET filename == getLocalFilename(item.name, SYNC_TYPES[kind])
              IN  (\E i \in 1..Len(pullRes.itemsWithDiffs) :
                      pullRes.itemsWithDiffs[i].id = item.id)
                    <=> /\ existsSync(localDir[kind], filename)
                        /\ localDir[kind].files[filename] # item.content
    /\ PushAnalysed
         => \A file \in LocalFilesOfKind :
              Len(file) = 2 /\ Cardinality(Matching(file)) = 1
                => \A item \in Matching(file) :
                     UpdatesOf(file) # {} <=> localDir[kind].files[file] # item.content

WithoutLineEnds(c) == SelectSeq(c, LAMBDA piece : piece # "\n")

\* pull found a diff between contents that differ only in the line end
C17_Witness ==
    /\ pullRes.state = "returned"
    /\ \E i \in 1..Len(pullRes.itemsWithDiffs) :
         WithoutLineEnds(pullRes.itemsWithDiffs[i].localContent)
           = WithoutLineEnds(pullRes.itemsWithDiffs[i].remoteContent)

\* push found an update between contents that differ only in the line end
C17_WitnessPush ==
    /\ PushAnalysed
    /\ \E i \in 1..Len(pushRes[kind].toUpdate) :
         \E item \in FetchedForPush :
           /\ item.id = pushRes[kind].toUpdate[i].id
           /\ WithoutLineEnds(item.content) = WithoutLineEnds(pushRes[kind].toUpdate[i].content)

\* C20: for a sync type whose local directory does not exist, pushItems
\* returns the empty result (nothing to create, nothing to update) and does
\* not throw, as it does for an existing directory without matching files.
C20_MissingDirIsEmptyPush ==
    pushRes[kind].state # "none" /\ ~localDir[kind].exists
      => /\ pushRes[kind].state = "returned"
         /\ pushRes[kind].toCreate = <<>>
         /\ pushRes[kind].toUpdate = <<>>
         /\ pushRes[kind].totalChanges = 0
         /\ pushRes[kind]
              = pushItems(kind, remote[kind], TRUE, {}, [exists |-> TRUE, files |-> <<>>], appId)

\* no directory although the remote collection has records
C20_Witness ==
    /\ ~localDir[kind].exists
    /\ pushRes[kind].state = "returned"
    /\ Len(remote[kind]) > 0

(***************************************************************************)
(* Properties of the push command.                                         *)
(***************************************************************************)
Methods == {push.sent[i].method : i \in 1..Len(push.sent)}

\* C10: in a confirmed push with no APP_ID configured, every pending create
\* fails by itself with the missing-APP_ID error and sends no POST, while
\* every pending update of the batch is still sent as a PUT; the batch is
\* worked through to its end.
C10_CreateWithoutAppIdFailsAlone ==
    appId = "" /\ push.pc \in {"pushing", "complete"}
      => /\ "POST" \notin Methods
         /\ \A i \in 1..Len(push.outcomes) :
              /\ Worklist[i].op = "create" => push.outcomes[i] = "no_app_id"
              /\ Worklist[i].op = "update"
                   => /\ push.outcomes[i] \in {"ok", "failed"}
                      /\ \E j \in 1..Len(push.sent) : push.sent[j] = PutCall(Worklist[i].entry)
         /\ push.pc = "complete"
              => /\ Len(push.outcomes) = Len(Worklist)
                 /\ push.failCount >= CountOp("create")

\* a create of the first sync type failed for the missing APP_ID and an
\* update of a later sync type was then sent and succeeded
C10_Witness ==
    /\ appId = ""
    /\ push.pc = "complete"
    /\ Len(Worklist) = 2
    /\ Worklist[1].op = "create" /\ push.outcomes[1] = "no_app_id"
    /\ Worklist[2].op = "update" /\ push.outcomes[2] = "ok"
    /\ push.successCount >= 1

\* C11: when the operator cancels at the diff prompt or declines the final
\* confirmation of push, no PUT or POST for a resource has been issued and
\* none is issued afterwards; PUT and POST calls are issued only after the
\* final confirmation was answered affirmatively.
C11_CancelSendsNothing ==
    /\ [](/\ push.answer \in {"cancel", "no"} => push.sent = <<>> /\ push.pc = "cancelled"
          /\ push.sent # <<>> => push.answer = "yes")
    /\ [][push'.sent # push.sent => push.answer = "yes"]_vars

\* a push with a pending update was cancelled at the diff prompt
C11_Witness ==
    /\ push.answer = "cancel"
    /\ CountOp("update") > 0
    /\ push.sent = <<>>

\* a push with pending changes was declined at the final confirmation
C11_WitnessDeclined ==
    /\ push.answer = "no"
    /\ Len(Worklist) > 0
    /\ push.sent = <<>>

(***************************************************************************)
(* Properties of the clear command.                                        *)
(***************************************************************************)
\* the files clear showed before the prompt
Listed ==
    Range(clear.allFiles)
      \cup {[dir |-> "root", file |-> clear.configFiles[i]] : i \in 1..Len(clear.configFiles)}

\* the listed files in the order shown
ListedInOrder ==
    clear.allFiles
      \o [i \in 1..Len(clear.configFiles) |-> [dir |-> "root", file |-> clear.configFiles[i]]]

\* the file is where it was when clear listed the directory, content included
Untouched(k, f) ==
    /\ localDir[k].exists
    /\ f \in DOMAIN localDir[k].files
    /\ localDir[k].files[f] = clear.dirsBefore[k].files[f]

ClearListed == clear.pc \notin {"start"}

\* C12: clear deletes a file only after the confirmation was answered
\* affirmatively (Enter alone declines); once confirmed it attempts to delete
\* exactly the files it listed before the prompt, each once, a failed
\* deletion does not stop the others, and every file it did not list stays
\* as it was.
C12_ClearDeletesOnlyListedAfterYes ==
    /\ [](ClearListed =>
            /\ clear.answer # "yes" => localDir = clear.dirsBefore /\ disk = clear.diskBefore
            /\ clear.pc = "complete" =>
                 /\ clear.attempted = ListedInOrder
                 /\ clear.deletedCount = Cardinality(clear.removed)
                 /\ \A e \in clear.removed :
                      IF e.dir = "root" THEN e.file \notin disk.root
                      ELSE e.file \notin DOMAIN localDir[e.dir].files
            /\ \A k \in SyncKinds :
                 /\ localDir[k].exists = clear.dirsBefore[k].exists
                 /\ \A f \in DOMAIN clear.dirsBefore[k].files :
                      [dir |-> k, file |-> f] \notin clear.removed => Untouched(k, f)
            /\ clear.removed \subseteq Listed
            /\ disk.subdirs = clear.diskBefore.subdirs
            /\ \A f \in clear.diskBefore.root :
                 [dir |-> "root", file |-> f] \notin clear.removed => f \in disk.root)
    /\ [][(localDir' # localDir \/ disk' # disk) => clear.answer = "yes"]_vars
    /\ [][clear.pc = "confirm" /\ clear'.pc = "deleting" => clear'.answer = "yes"]_vars

\* a confirmed clear: the deletion of the first listed file failed, a later
\* one succeeded, and a file that was not listed is still there
C12_Witness ==
    /\ clear.pc = "complete"
    /\ Len(clear.attempted) >= 2
    /\ clear.attempted[1] \notin clear.removed
    /\ clear.attempted[2] \in clear.removed
    /\ \E k \in SyncKinds : localDir[k].exists /\ <<"notes", ".txt">> \in DOMAIN localDir[k].files

\* Enter alone at the confirmation: nothing was deleted
C12_WitnessDefaultDeclines ==
    /\ clear.pc = "cancelled"
    /\ clear.key = "enter"
    /\ Len(clear.allFiles) > 0
    /\ localDir = clear.dirsBefore

(***************************************************************************)
(* Properties of a repeated push.                                          *)
(***************************************************************************)
\* the analysis of the run is over: pushItems returned for every sync type
AnalysisDone ==
    /\ push.analysed = Len(SyncTypeOrder)
    /\ \A k \in SyncKinds : pushRes[k].state = "returned"

\* a run that follows a run in which every PUT and POST succeeded and every
\* fetch answered, its own fetches answered as well
SecondRunAfterCleanPush ==
    /\ push.run >= 2
    /\ push.prev = "clean"
    /\ AnalysisDone
    /\ FetchesAnswered

\* C13: when push is run twice in a row with no local edit in between, the
\* second run finds nothing to push: toCreate and toUpdate are empty for
\* every sync type.
C13_SecondPushFindsNothing ==
    SecondRunAfterCleanPush
      => \A k \in SyncKinds : pushRes[k].toCreate = <<>> /\ pushRes[k].toUpdate = <<>>

\* what the code does satisfy: the same, when no local file carries the
\* extension of its sync type twice
PushIdempotentSingleExtension ==
    SecondRunAfterCleanPush
      /\ (\A k \in SyncKinds : \A f \in DOMAIN localDir[k].files : Len(f) = 2)
      => \A k \in SyncKinds : pushRes[k].toCreate = <<>> /\ pushRes[k].toUpdate = <<>>

\* a second run that had something to compare and found nothing to push
PushIdempotentWitness ==
    /\ SecondRunAfterCleanPush
    /\ Len(push.sent) = 0
    /\ \E k \in SyncKinds : pushRes[k].fetched /\ pushRes[k].totalChanges = 0
    /\ Len(remote["template"]) + Len(remote["scriptforge"]) >= 2

(***************************************************************************)
(* Properties of the pull command.                                         *)
(***************************************************************************)
\* the entry of a write log that wrote the file last, 0 when none did
LastWriteOf(writes, filename) ==
    LET hits == {i \in 1..Len(writes) : writes[i].filename = filename}
    IN  IF hits = {} THEN 0 ELSE CHOOSE i \in hits : \A j \in hits : j <= i

\* the previous pull wrote the content of the record to its file and
\* nothing wrote the file after it; the remote content is what it was
WrittenByPreviousPull(k, item) ==
    LET filename == getLocalFilename(item.name, SYNC_TYPES[k])
        last == LastWriteOf(pull.prev[k], filename)
    IN  /\ pull.run >= 2
        /\ last # 0
        /\ pull.prev[k][last].id = item.id
        /\ pull.prev[k][last].content = item.content

NotADiffCandidate(k, item) ==
    \A i \in 1..Len(pull.preview[k].itemsWithDiffs) :
        pull.preview[k].itemsWithDiffs[i].id # item.id

\* C14 as stated: a record whose content the previous pull wrote to its file
\* is, in the pull that follows at once, no diff candidate, and that pull
\* does not write the record's file.
C14_RepullWritesNothing ==
    \A k \in SyncKinds : \A item \in Range(pull.preview[k].fetched) :
        WrittenByPreviousPull(k, item)
          => /\ NotADiffCandidate(k, item)
             /\ \A i \in 1..Len(pull.applied[k].writes) : pull.applied[k].writes[i].id # item.id

\* C14 amended: such a record is no diff candidate of the pull that
\* follows; a confirmed pull nevertheless writes the file of every fetched
\* record again, this one included, with the content the file already
\* holds, so the file is the same afterwards.
C14_RepullRewritesSameContent ==
    \A k \in SyncKinds : \A item \in Range(pull.preview[k].fetched) :
        WrittenByPreviousPull(k, item)
          => LET filename == getLocalFilename(item.name, SYNC_TYPES[k])
             IN  /\ NotADiffCandidate(k, item)
                 /\ existsSync(localDir[k], filename)
                 /\ localDir[k].files[filename] = item.content
                 /\ pull.applied[k].state = "returned"
                      => \E i \in 1..Len(pull.applied[k].writes) :
                           pull.applied[k].writes[i]
                             = [id |-> item.id, filename |-> filename, content |-> item.content]

\* the second pull in a row is complete: the record the first one wrote was
\* no diff candidate and its file was written again
C14_Witness ==
    /\ pull.run = 2
    /\ pull.pc = "complete"
    /\ \E k \in SyncKinds : \E item \in Range(pull.preview[k].fetched) :
         /\ WrittenByPreviousPull(k, item)
         /\ \E i \in 1..Len(pull.applied[k].writes) : pull.applied[k].writes[i].id = item.id

\* C18: in pull apply mode a write failure does not stop the other writes:
\* every other fetched record is written to its derived file name, the
\* pulled count is the number of writes that succeeded, and each file
\* written holds the content written to it last.
C18_WriteFailureDoesNotBlock ==
    \A k \in SyncKinds :
        pull.applied[k].state = "returned"
          => LET r == pull.applied[k]
             IN  /\ \A item \in Range(r.fetched) :
                      LET filename == getLocalFilename(item.name, SYNC_TYPES[k])
                      IN  (filename \notin pull.writeFails[k])
                            <=> \E i \in 1..Len(r.writes) :
                                  r.writes[i] = [id |-> item.id, filename |-> filename,
                                                 content |-> item.content]
                 /\ r.pulled = Len(r.writes)
                 /\ r.pulled = Cardinality({item \in Range(r.fetched) :
                                   getLocalFilename(item.name, SYNC_TYPES[k])
                                     \notin pull.writeFails[k]})
                 /\ \A i \in 1..Len(r.writes) :
                      /\ existsSync(localDir[k], r.writes[i].filename)
                      /\ localDir[k].files[r.writes[i].filename]
                           = r.writes[LastWriteOf(r.writes, r.writes[i].filename)].content

\* two records were fetched, the write of the first file failed and the
\* second file was written: 1 of 2 pulled
C18_Witness ==
    /\ pull.applied["scriptforge"].state = "returned"
    /\ Len(pull.applied["scriptforge"].fetched) = 2
    /\ pull.writeFails["scriptforge"] = {<<"a", ".js">>}
    /\ pull.applied["scriptforge"].pulled = 1
    /\ pull.applied["scriptforge"].total = 2
    /\ existsSync(localDir["scriptforge"], <<"b", ".js">>)

\* the previews are over and the command went on from them
PullSummarised == pull.shown \cap {"nothing", "diffPrompt", "confirm"} # {}

\* no remote record of any sync type, and no file in any sync directory
NothingRemoteNothingLocal ==
    /\ totalItemsOf(pull.preview) = 0
    /\ pull.cfg.total = 0
    /\ ~pull.cfg.localData
    /\ pull.env.total = 0
    /\ pull.existing = <<>>

\* since the command started no file was written or removed
NothingWritten == localDir = pull.dirsBefore /\ disk = pull.diskBefore

C19_WitnessEmptyEnv ==
    /\ NothingRemoteNothingLocal
    /\ pull.env.success
    /\ pull.pc = "complete"
    /\ <<"cx", ".env">> \in disk.root

(***************************************************************************)
(* C21                                                                     *)
(***************************************************************************)
\* the command ended in its catch block although it had no refresh token
PullFailedWithoutToken == getRefreshToken_throws(envToken) /\ pull.pc = "error"

PushFailedWithoutToken == getRefreshToken_throws(envToken) /\ push.pc = "error"

\* C21: a pull or push that fails because no refresh token is configured
\* aborts at once and the process ends with a non-zero exit status.
C21_SetupFailureExitsNonZero ==
    /\ PullFailedWithoutToken
         => pull.exitCode # 0 /\ localDir = pull.dirsBefore /\ disk = pull.diskBefore
    /\ PushFailedWithoutToken
         => push.exitCode # 0 /\ push.sent = <<>>

\* what does hold: the failure ends the command before any record is
\* fetched, written or sent
SetupFailureEndsCommand ==
    /\ PullFailedWithoutToken
         => /\ pull.analysed = 1 /\ pull.appliedCount = 0
            /\ disk = pull.diskBefore
            /\ pull.cleanChoice # "clean" => localDir = pull.dirsBefore
    /\ PushFailedWithoutToken => push.sent = <<>>

SetupFailureWitness == PullFailedWithoutToken /\ pull.cleanChoice = "clean"

SetupFailureWitnessPush == PushFailedWithoutToken

(***************************************************************************)
(* C22                                                                     *)
(***************************************************************************)
\* the remote record with this id
RecordOf(id) == CHOOSE item \in Range(remote[kind]) : item.id = id

\* the pull wrote a file for every remote record
PulledAll == pullRes.state = "returned" /\ Len(pullRes.writes) = Len(remote[kind])

\* the record the push analysis finds for a local file: its id, 0 when the
\* file counts as new
MatchedId(localFile) ==
    LET v == matchedVariant(localFile, pushRes[kind].remoteMap)
    IN  IF v = 0 THEN 0 ELSE pushRes[kind].remoteMap[localFile.nameVariants[v]].id

\* the file names of different resource names differ, and the file of every
\* record whose name no other record has leads push back to that record
FilenameReversible ==
    /\ PulledAll
         => \A i, j \in 1..Len(pullRes.writes) :
              RecordOf(pullRes.writes[i].id).name # RecordOf(pullRes.writes[j].id).name
                => pullRes.writes[i].filename # pullRes.writes[j].filename
    /\ PulledAll /\ PushAnalysed
         => \A item \in Range(remote[kind]) :
              (\A other \in Range(remote[kind]) : other.name = item.name => other = item)
                => \E i \in 1..Len(localFilesOf(localDir[kind], SYNC_TYPES[kind])) :
                     LET localFile == localFilesOf(localDir[kind], SYNC_TYPES[kind])[i]
                     IN  /\ localFile.filename = getLocalFilename(item.name, SYNC_TYPES[kind])
                         /\ MatchedId(localFile) = item.id

\* C22: for every resource kind the local file name is a reversible function
\* of the resource name: two different names never get the same file name,
\* and the name push derives from the file name finds the same remote record.
C22_FilenameReversibleEveryKind == FilenameReversible

\* what does hold: the same for the kinds whose file name is name + extension
FilenameReversibleByExtension ==
    ~SYNC_TYPES[kind].filenameFromName => FilenameReversible

FilenameReversibleWitness ==
    /\ kind = "scriptforge"
    /\ PulledAll /\ PushAnalysed
    /\ Len(remote[kind]) = 2
    /\ remote[kind][1].name = <<"a">>
    /\ remote[kind][2].name = <<"a", ".js">>

(***************************************************************************)
(* C23                                                                     *)
(***************************************************************************)
\* the invocation read a refresh token that decodeJWT rejects
ReadMalformed(r) ==
    /\ req[r].pc # "idle"
    /\ req[r].readToken # NoToken
    /\ decodeJWT_throws(req[r].readToken)

\* C23: a refresh token that is not three dot-separated segments, or whose
\* payload does not decode, is no hard failure of the expiry check: the
\* check does not throw and reports needsRenewal = true, and the request
\* goes on to attempt a renewal with that token.
C23_MalformedTokenAttemptsRenewal ==
    \A r \in Reqs :
        ReadMalformed(r)
          => /\ req[r].needsRenewal
             /\ req[r].daysRemaining = 0
             /\ Len(req[r].calls) >= 1
             /\ req[r].calls[1] = RenewCall(req[r].readToken)
             /\ req[r].result.outcome # "thrown"

\* a two-segment token went to renewal, the renewal was refused, and the
\* request went on to the access-token exchange
C23_Witness ==
    \E r \in Reqs :
        /\ ReadMalformed(r)
        /\ req[r].readToken.segs = 2
        /\ req[r].renewal = "http401"
        /\ req[r].pc = "done"

C23_WitnessUndecodable ==
    \E r \in Reqs :
        /\ ReadMalformed(r)
        /\ req[r].readToken.segs = 3
        /\ req[r].pc = "renewing"

(***************************************************************************)
(* C24                                                                     *)
(***************************************************************************)
\* the bodies of the renewal requests sent so far
RenewalBodiesSent ==
    UNION { {req[r].calls[i].body : i \in {j \in 1..Len(req[r].calls) :
                                              req[r].calls[j].op = "renew"}}
            : r \in Reqs }

\* C24: every renewal request asks for a lifetime of 30 days and carries the
\* audience claim of the initial token exchange (cx-tools@<hostname>).
C24_RenewalCarriesLifetimeAndAudience ==
    \A body \in RenewalBodiesSent :
        /\ body.lifetime = 30 * DaySecs
        /\ "audience" \in DOMAIN body
        /\ body.audience = initialRefreshBody.audience

\* what does hold: the lifetime asked for is the 30 days of the initial exchange
RenewalAsksThirtyDays ==
    \A body \in RenewalBodiesSent :
        body.lifetime = 30 * DaySecs /\ body.lifetime = initialRefreshBody.lifetime

RenewalWitness ==
    \E r \in Reqs : req[r].renewal = "ok_token" /\ RenewalBodiesSent # {}

(***************************************************************************)
(* C25                                                                     *)
(***************************************************************************)
\* the invocation returned what it made of a 2xx answer of the target call
DecodedOk(r) == req[r].pc = "done" /\ req[r].response.body # "none" /\ req[r].response.ok

\* the declared content type names this media type
Declares(resp, mediaType) == Len(resp.ctype) > 0 /\ resp.ctype[1] = mediaType

RawText(resp, tag) == Success(<<"raw", resp.body>>, tag)

\* C25 as stated: for a 2xx response text/csv gives the raw text tagged
\* csv; application/json or an empty content type gives the parsed JSON
\* tagged json when the body parses and the raw text tagged text when it
\* does not; any other content type gives the raw text tagged text.
C25_DecodesByContentType ==
    \A r \in Reqs :
        DecodedOk(r)
          => LET resp == req[r].response
             IN  req[r].result =
                   IF Declares(resp, "text/csv") THEN RawText(resp, "csv")
                   ELSE IF Declares(resp, "application/json") \/ resp.ctype = <<>>
                   THEN IF isValidJSON(resp.body)
                        THEN Success(<<"parsed", resp.body>>, "json")
                        ELSE RawText(resp, "text")
                   ELSE RawText(resp, "text")

\* C25 amended: as stated, but a body that is empty does not count as text
\* that fails to parse: under application/json or an empty content type it
\* gives the empty object tagged json.
C25_DecodesByContentTypeEmptyBodyIsObject ==
    \A r \in Reqs :
        DecodedOk(r)
          => LET resp == req[r].response
             IN  req[r].result =
                   IF Declares(resp, "text/csv") THEN RawText(resp, "csv")
                   ELSE IF Declares(resp, "application/json") \/ resp.ctype = <<>>
                   THEN IF isValidJSON(resp.body)
                        THEN Success(<<"parsed", resp.body>>, "json")
                        ELSE IF resp.body = "empty"
                        THEN Success(<<"parsed", "{}">>, "json")
                        ELSE RawText(resp, "text")
                   ELSE RawText(resp, "text")

\* a 2xx answer without a content type whose body parses
C25_Witness ==
    \E r \in Reqs :
        /\ DecodedOk(r)
        /\ req[r].response.ctype = <<>>
        /\ req[r].response.body = "json"
        /\ req[r].result.contentType = "json"

\* a 2xx answer declared as JSON with an empty body
C25_WitnessEmptyBody ==
    \E r \in Reqs :
        /\ DecodedOk(r)
        /\ Declares(req[r].response, "application/json")
        /\ req[r].response.body = "empty"
        /\ req[r].result = Success(<<"parsed", "{}">>, "json")

(***************************************************************************)
(* C26                                                                     *)
(***************************************************************************)
\* the invocation read a refresh token that had expired when it started
StartedExpired(r) ==
    /\ req[r].pc # "idle"
    /\ req[r].readToken # NoToken
    /\ ExpiredAt(req[r].readToken, req[r].startedAt)

\* C26: Expired is terminal for the request path: once the stored refresh
\* token is expired (the server refuses it for renewal and for the
\* access-token exchange), every authenticated request returns a failure
\* and no request replaces the stored token.
C26_ExpiredIsTerminal ==
    /\ [](\A r \in Reqs :
            StartedExpired(r)
              => /\ req[r].pc = "done" => req[r].result.outcome = "failure"
                 /\ \A i \in 1..Len(req[r].calls) : req[r].calls[i].op # "target")
    /\ [][ExpiredAt(envToken, now) => envToken' = envToken /\ envFile' = envFile]_vars

\* a request that started after the token expired at the tick: renewal and
\* exchange were both refused with 401, the stored token is still the old one
C26_Witness ==
    \E r \in Reqs :
        /\ StartedExpired(r)
        /\ req[r].startedAt > Now0
        /\ req[r].renewal = "http401"
        /\ req[r].exchange = "http401"
        /\ req[r].result = Failure(<<"Network error: ">> \o MsgExpired)
        /\ envToken = req[r].readToken

(***************************************************************************)
(* C27                                                                     *)
(***************************************************************************)
\* C27: configure writes .env only when (the file does not exist or --force
\* is given) and both the credential validation and the refresh-token
\* request succeeded; in every other case .env is left as it was.
C27_ConfigureWritesOnlyWhenAllowed ==
    /\ [][envFile' # envFile
            => /\ ~envFile.exists \/ conf.force
               /\ conf.validation = "ok"
               /\ conf'.tokenResult = "ok_token"]_vars
    /\ [](conf.pc = "done" /\ ~conf.written => envFile = fileBefore)

\* --force on an existing .env, both requests succeeded: the file holds the new token
C27_Witness ==
    /\ conf.pc = "done"
    /\ conf.force
    /\ fileBefore.exists
    /\ conf.written
    /\ envFile = writeEnvFile(InitialToken(now), "")
    /\ envFile # fileBefore

\* an existing .env and no --force: nothing is asked and nothing is written
C27_WitnessKept ==
    /\ conf.pc = "done"
    /\ ~conf.force
    /\ conf.validation = "none"
    /\ envFile.exists

(***************************************************************************)
(* C28, C29                                                                *)
(***************************************************************************)
\* the operations of the network calls request r has issued, in order
OpsOf(r) == [i \in DOMAIN req[r].calls |-> req[r].calls[i].op]

LastCall(r) == req[r].calls[Len(req[r].calls)]

IssuedTarget(r) == req[r].calls # <<>> /\ LastCall(r).op = "target"

\* C28: within every authenticated request the steps come in the order
\* token lookup, expiry check with renewal if eligible, access-token
\* exchange, target call: nothing is issued without a token, the renewal
\* call (made exactly when the check at the start asked for it) comes first,
\* the exchange next, and the target call is issued only in the step in
\* which the exchange of the same request succeeded and carries the access
\* token of that exchange as its Bearer credential.
C28_StepsInOrder ==
    /\ [](\A r \in Reqs :
            /\ OpsOf(r) \in { <<>>, <<"renew">>, <<"renew", "access">>, <<"access">>,
                              <<"renew", "access", "target">>, <<"access", "target">> }
            /\ req[r].readToken = NoToken => req[r].calls = <<>>
            /\ req[r].calls # <<>>
                 => /\ req[r].needsRenewal
                         = checkRefreshTokenExpiration(req[r].readToken, req[r].startedAt).needsRenewal
                    /\ req[r].calls[1].op = "renew" <=> req[r].needsRenewal
                    /\ req[r].calls[1].bearer = <<"refresh", req[r].readToken.id>>
            /\ IssuedTarget(r)
                 => /\ req[r].exchange = "ok_token"
                    /\ req[r].accessToken > 0
                    /\ LastCall(r).bearer = AccessToken(req[r].accessToken))
    /\ [][\A r \in Reqs :
            IssuedTarget(r)' /\ req'[r].calls # req[r].calls
              => /\ req[r].pc = "exchanging"
                 /\ req'[r].exchange = "ok_token"
                 /\ req'[r].accessToken = accessIssued']_vars

\* a request that renewed, exchanged and called the target, in that order
C28_Witness ==
    \E r \in Reqs :
        /\ OpsOf(r) = <<"renew", "access", "target">>
        /\ req[r].renewal = "ok_token"
        /\ req[r].pc = "done"
        /\ req[r].result.outcome = "success"
        /\ LastCall(r).bearer = AccessToken(req[r].accessToken)

\* C29: access tokens are never cached or reused: the token a target call
\* carries is one the server issued in that very step in answer to the
\* exchange of the same request, so no earlier call carried it, and two
\* requests never carry the same access token.
C29_AccessTokenNeverReused ==
    /\ [][\A r \in Reqs :
            IssuedTarget(r)' /\ req'[r].calls # req[r].calls
              => /\ accessIssued' = accessIssued + 1
                 /\ LastCall(r)'.bearer = AccessToken(accessIssued')]_vars
    /\ [](\A r1, r2 \in Reqs :
            r1 # r2 /\ IssuedTarget(r1) /\ IssuedTarget(r2)
              => LastCall(r1).bearer # LastCall(r2).bearer)

\* two requests called the target, each with a token of its own
C29_Witness ==
    \E r1, r2 \in Reqs :
        /\ r1 # r2
        /\ IssuedTarget(r1) /\ IssuedTarget(r2)
        /\ req[r1].pc = "done" /\ req[r2].pc = "done"
        /\ req[r1].result.outcome = "success" /\ req[r2].result.outcome = "success"
        /\ LastCall(r1).bearer # LastCall(r2).bearer
        /\ accessIssued = 2

(***************************************************************************)
(* C30                                                                     *)
(***************************************************************************)
\* C30: in the detail-fetch phase of pull and of push every per-resource
\* fetch is issued before any of them is awaited (no fetch settles into the
\* function while one is still to be issued), and the classification of
\* local against remote state (the result of pullItems / pushItems) is made
\* only when every issued fetch has completed, fulfilled or rejected.
C30_FanOutThenAwaitAll ==
    /\ [][\A i \in DOMAIN fan.fetch :
            Settled(fan'.fetch[i]) /\ ~Settled(fan.fetch[i])
              => \A j \in DOMAIN fan.fetch : fan.fetch[j] # "unissued"]_vars
    /\ [][pullRes' # pullRes \/ pushRes' # pushRes
            => \A i \in DOMAIN fan.fetch : Settled(fan.fetch[i])]_vars
    /\ [](fan.pc = "returned" => \A i \in DOMAIN fan.fetch : Settled(fan.fetch[i]))

\* push: two fetches issued, the first failed, the second succeeded, then classified
C30_Witness ==
    /\ fan.pc = "returned"
    /\ fan.cmd = "push"
    /\ fan.fetch = <<"rejected", "fulfilled">>
    /\ pushRes[kind].state = "returned"
    /\ pushRes[kind].failures = {fan.items[1].id}

\* pull: two fetches pending at once, then both settled and the preview returned
C30_WitnessPull ==
    /\ fan.pc = "returned"
    /\ fan.cmd = "pull"
    /\ fan.fetch = <<"fulfilled", "rejected">>
    /\ pullRes.state = "returned"
    /\ pullRes.failures = {fan.items[2].id}

(***************************************************************************)
(* C31                                                                     *)
(***************************************************************************)
\* the detail fetches settled in an order other than the one they were issued in
OutOfOrder(f) == \E i, j \in DOMAIN f.arrival : i < j /\ f.arrival[i] > f.arrival[j]

\* C31: for a fixed set of fetch responses the result of the pull preview
\* (candidate list and diff candidates) and of the push analysis (remote
\* map, toUpdate, toCreate) is the same whatever the order in which the
\* parallel detail fetches completed: it is the function of the list, the
\* set of failed fetches and the local directory alone.
C31_ResultIndependentOfCompletionOrder ==
    fan.pc = "returned"
      => /\ fan.cmd = "pull"
              => pullRes = pullItems(kind, remote[kind], fan.listOk, FailedOf(fan),
                                     localDir[kind], appId, TRUE, {}).result
         /\ fan.cmd = "push"
              => pushRes[kind] = pushItems(kind, remote[kind], fan.listOk, FailedOf(fan),
                                           localDir[kind], appId)

\* push: the second fetch completed before the first, both records are in
\* scope and carry the same name, a local file of the type exists
C31_Witness ==
    /\ fan.pc = "returned"
    /\ fan.cmd = "push"
    /\ fan.arrival = <<2, 1>>
    /\ fan.fetch = <<"fulfilled", "fulfilled">>
    /\ fan.items[1].name = fan.items[2].name
    /\ fan.items[1].content # fan.items[2].content
    /\ pushRes[kind].state = "returned"
    /\ pushRes[kind].totalChanges > 0

\* pull: the fetches completed out of order and the preview holds a diff candidate
C31_WitnessPull ==
    /\ fan.pc = "returned"
    /\ fan.cmd = "pull"
    /\ OutOfOrder(fan)
    /\ pullRes.state = "returned"
    /\ pullRes.itemsWithDiffs # <<>>

(***************************************************************************)
(* C32                                                                     *)
(***************************************************************************)
\* the invocations suspended in await renewRefreshToken(...)
RenewalsInFlight == {r \in Reqs : req[r].pc = "renewing"}

\* C32 as stated: within one process at most one refresh-token renewal is
\* in flight at any time, also when several authenticated requests run in
\* parallel with a renewal-eligible token.
C32_SingleRenewalInFlight == Cardinality(RenewalsInFlight) <= 1

(***************************************************************************)
(* C33                                                                     *)
(***************************************************************************)
\* the names of the remote records the list fetch gave in the configured scope
ScopedNames(k) ==
    LET items == filterByAppId(remote[k], appId)
    IN  {items[i].name : i \in 1..Len(items)}

\* C33 as stated: a local file whose name is the name of a remote record
\* listed in the configured scope is never classified as toCreate, also
\* when the detail fetch of that record failed.
C33_ListedNameNeverCreated ==
    pushRes[kind].state = "returned"
      => \A i \in DOMAIN pushRes[kind].toCreate :
            pushRes[kind].toCreate[i].name \notin ScopedNames(kind)

(***************************************************************************)
(* C34                                                                     *)
(***************************************************************************)
\* the PUT calls pushAction issues for the analysis of sync type k
PutCallsOf(k) == {PutCall(pushRes[k].toUpdate[i]) : i \in DOMAIN pushRes[k].toUpdate}

\* the remote records of sync type k with the id
RecordsWithId(k, id) == {remote[k][i] : i \in {j \in DOMAIN remote[k] : remote[k][j].id = id}}

\* C34: with a scope configured, every PUT of push targets a remote record
\* whose app id is the configured one and sends that app id in its body;
\* no record of another application is modified.
C34_PutStaysInScope ==
    appId # "" /\ pushRes[kind].state = "returned"
      => \A c \in PutCallsOf(kind) :
            /\ RecordsWithId(kind, c.id) # {}
            /\ \A rec \in RecordsWithId(kind, c.id) : sameApp(rec.app_id, appId)
            /\ sameApp(c.body.app_id, appId)

\* a record of the configured application is updated while a record of the
\* same name belongs to another application
C34_Witness ==
    /\ appId # ""
    /\ pushRes[kind].state = "returned"
    /\ PutCallsOf(kind) # {}
    /\ \E i, j \in DOMAIN remote[kind] :
         /\ ~sameApp(remote[kind][i].app_id, appId)
         /\ sameApp(remote[kind][j].app_id, appId)
         /\ remote[kind][i].name = remote[kind][j].name

(***************************************************************************)
(* C35                                                                     *)
(***************************************************************************)
\* the pull ended by cancel at the diff prompt or by no at the final confirmation
PullCancelledLate == pull.pc = "cancelled" /\ pull.answer \in {"cancel", "no"}

\* C35 as stated: a pull that ends as cancelled at the diff prompt or at the
\* final confirmation leaves every local sync file as it was before the
\* invocation: nothing was written and nothing was deleted.
C35_CancelledPullLeavesFiles ==
    PullCancelledLate => localDir = pull.dirsBefore /\ disk = pull.diskBefore

\* what does hold: a cancelled pull writes nothing; a file is missing
\* afterwards only if the operator chose clean at the first prompt
CancelledPullWritesNothing ==
    PullCancelledLate
      => /\ disk = pull.diskBefore
         /\ \A k \in SyncKinds :
              /\ localDir[k].exists => pull.dirsBefore[k].exists
              /\ \A f \in DOMAIN localDir[k].files :
                   /\ f \in DOMAIN pull.dirsBefore[k].files
                   /\ localDir[k].files[f] = pull.dirsBefore[k].files[f]
         /\ pull.cleanChoice # "clean" => localDir = pull.dirsBefore

(***************************************************************************)
(* C36                                                                     *)
(***************************************************************************)
\* the files (name and content) the preview of sync type k fetched
PreviewedFiles(k) ==
    {[filename |-> getLocalFilename(item.name, SYNC_TYPES[k]), content |-> item.content]
       : item \in Range(pull.preview[k].fetched)}

\* the files (name and content) the apply of sync type k wrote
WrittenFiles(k) ==
    {[filename |-> w.filename, content |-> w.content] : w \in Range(pull.applied[k].writes)}

\* C36 as stated: the files and contents a confirmed pull writes are exactly
\* those of the preview the operator confirmed, also when the remote
\* collection changes between the preview fetch and the apply fetch.
C36_WritesWhatWasPreviewed ==
    pull.pc = "complete" => \A k \in SyncKinds : WrittenFiles(k) = PreviewedFiles(k)

(***************************************************************************)
(* C37                                                                     *)
(***************************************************************************)
\* the values of the APP_ID entries of a .env file
AppIdEntries(f) ==
    IF ~f.exists THEN {}
    ELSE {f.lines[i].text : i \in {j \in DOMAIN f.lines :
                                      f.lines[j].pre = "" /\ f.lines[j].key = "APP_ID"}}

\* configure --force ran on an existing .env and wrote it
ForcedRewrite == conf.pc = "done" /\ conf.force /\ conf.written /\ fileBefore.exists

\* C37 as stated: configure --force on an existing .env replaces the refresh
\* token and keeps the APP_ID entry with the value it had.
C37_ForceKeepsAppId ==
    ForcedRewrite
      => /\ configDotenv(envFile) = InitialToken(now)
         /\ AppIdEntries(envFile) = AppIdEntries(fileBefore)

\* what does hold: the token is replaced and the file is the three lines of
\* writeEnvFile, with no APP_ID entry
ForceRewritesWholeFile ==
    ForcedRewrite
      => /\ configDotenv(envFile) = InitialToken(now)
         /\ AppIdEntries(envFile) = {}

(***************************************************************************)
(* C38                                                                     *)
(***************************************************************************)
\* the ids of the records of sync type k the push analysis matched with a
\* local file whose content differs
UpdateIds(k) == {pushRes[k].toUpdate[i].id : i \in DOMAIN pushRes[k].toUpdate}

\* the local file f of sync type k holds the content of a remote record of that name
DerivedFromRemote(k, f, content) ==
    \E rec \in Range(remote[k]) :
        getLocalFilename(rec.name, SYNC_TYPES[k]) = f /\ rec.content = content

IdsOf(data) == {getId(data[i]) : i \in DOMAIN data}

RecordWithId(data, id) == data[CHOOSE i \in DOMAIN data : getId(data[i]) = id]

\* the diffs returned for the id
DiffsFor(id) == {i \in DOMAIN cfgDiff.diffs : cfgDiff.diffs[i].id = id}

HasDiff(id, type) == \E i \in DiffsFor(id) : cfgDiff.diffs[i].type = type

C39_WitnessRemove ==
    /\ cfgDiff.called
    /\ Len(cfgDiff.localData) = 2
    /\ Len(cfgDiff.remoteData) = 1
    /\ Len(cfgDiff.diffs) = 1
    /\ cfgDiff.diffs[1].type = "remove"
    /\ \E i \in DOMAIN cfgDiff.localData : cfgDiff.localData[i].note = "x"

====
